---- MODULE Spec2Model ----
(***************************************************************************)
(* A model of the Xero MCP server: the per-call client (XeroClientImpl),   *)
(* its transport helper request(), the toWire/fromWire entity mappers and  *)
(* the tool handlers that wrap every client call.                          *)
(*                                                                         *)
(* JavaScript values are tagged pairs <<tag, payload>> so that values of   *)
(* different JavaScript types can live in one object and be compared.      *)
(* A JavaScript object is a function from its keys to values; reading a    *)
(* key that is not there yields Undefined, as in JavaScript.               *)
(***************************************************************************)
EXTENDS Integers, Sequences, FiniteSets, TLC

VARIABLES
    credentials,   \* this.credentials of the client of this inbound call
    baseUrl,       \* this.baseUrl
    pc,            \* "idle" | "awaiting" (fetch in flight) | "settled" | "returned"
    call,          \* the client operation in progress: [tool, op, args, format]
    fetches,       \* the fetch() invocations made by the operation in progress
    response,      \* the HTTP response fetch resolved with, or NoResponse
    reqOutcome,    \* how request() settled
    opOutcome,     \* how the client operation settled
    toolResult,    \* what the tool handler returned (or that it threw)
    entity,        \* MapperSpec: [kind, input], the partial domain entity drawn
    wire           \* MapperSpec: what toWire / the update operation produced

vars == <<credentials, baseUrl, pc, call, fetches, response, reqOutcome,
          opOutcome, toolResult, entity, wire>>

-----------------------------------------------------------------------------
(* JavaScript values *)

Undefined == <<"undefined", "">>
Null == <<"null", "">>
NaN == <<"NaN", "">>
Str(s) == <<"string", s>>
Num(n) == <<"number", n>>
Bool(b) == <<"boolean", b>>
Obj(f) == <<"object", f>>
Arr(s) == <<"array", s>>

TypeOf(v) == v[1]
Val(v) == v[2]

\* {} : the object with no keys
Empty == [k \in {} |-> Undefined]

\* JavaScript truthiness: undefined, null, NaN, "", 0 and false are falsy
Truthy(v) ==
    CASE TypeOf(v) \in {"undefined", "null", "NaN"} -> FALSE
      [] TypeOf(v) = "string" -> Val(v) # ""
      [] TypeOf(v) = "number" -> Val(v) # 0
      [] TypeOf(v) = "boolean" -> Val(v)
      [] OTHER -> TRUE

\* o.k for a plain object o (a function): Undefined when the key is absent
Get(o, k) == IF k \in DOMAIN o THEN o[k] ELSE Undefined

\* v.k for any JavaScript value v: property access on undefined or null throws
\* a TypeError (callers test Nullish first); on other non-objects it reads
\* undefined
Nullish(v) == TypeOf(v) \in {"undefined", "null"}
Prop(v, k) == IF TypeOf(v) = "object" THEN Get(Val(v), k) ELSE Undefined

\* a || b
OrElse(a, b) == IF Truthy(a) THEN a ELSE b

\* JSON.stringify followed by the receiver's JSON.parse: keys whose value is
\* undefined are dropped, undefined array elements and NaN become null
RECURSIVE JSONstringify(_)
JSONstringify(v) ==
    CASE TypeOf(v) = "object" ->
            LET o == Val(v)
                kept == {k \in DOMAIN o : o[k] # Undefined}
            IN Obj([k \in kept |-> JSONstringify(o[k])])
      [] TypeOf(v) = "array" ->
            LET s == Val(v)
            IN Arr([i \in 1..Len(s) |->
                      IF s[i] = Undefined THEN Null ELSE JSONstringify(s[i])])
      [] TypeOf(v) = "NaN" -> Null
      [] OTHER -> v

\* The completion of an expression that threw a TypeError instead of yielding
\* a value; it propagates through the object and array literals around it
Thrown == <<"thrown", "TypeError">>

\* an object literal { k: e, ... } : throws when evaluating a member throws
ObjOrThrow(fields) ==
    IF \E k \in DOMAIN fields : fields[k] = Thrown THEN Thrown ELSE Obj(fields)

\* arr.map(F) for an array arr
MapElements(arr, F(_)) ==
    LET r == [i \in 1..Len(Val(arr)) |-> F(Val(arr)[i])]
    IN IF \E i \in DOMAIN r : r[i] = Thrown THEN Thrown ELSE Arr(r)

\* v?.map(F) : undefined for a nullish v, a TypeError when v has no map method
OptMap(v, F(_)) ==
    IF Nullish(v) THEN Undefined
    ELSE IF TypeOf(v) # "array" THEN Thrown
    ELSE MapElements(v, F)

\* v?.map(this.F) : the argument this.F is evaluated only when v is not nullish,
\* and reading a member of an undefined `this` throws
OptMapThis(v, bound, F(_)) ==
    IF Nullish(v) THEN Undefined
    ELSE IF ~bound THEN Thrown
    ELSE OptMap(v, F)

\* if (o.f) result.K = o.f
IfTruthy(o, f, K) == IF Truthy(Prop(o, f)) THEN K :> Prop(o, f) ELSE Empty

\* if (o.f !== undefined) result.K = o.f
IfDefined(o, f, K) == IF Prop(o, f) # Undefined THEN K :> Prop(o, f) ELSE Empty

-----------------------------------------------------------------------------
(* Errors.  The error classes live in utils/errors.ts; a thrown error is a   *)
(* record of its class name and the constructor arguments it is given       *)
(* (statusCode is 0 where the caller passes none).                          *)

NoError == [name |-> "none", message |-> Undefined, statusCode |-> 0,
            retryAfterSeconds |-> Undefined]

RateLimitError(message, retryAfterSeconds) ==
    [name |-> "RateLimitError", message |-> message, statusCode |-> 0,
     retryAfterSeconds |-> retryAfterSeconds]

AuthenticationError(message) ==
    [name |-> "AuthenticationError", message |-> message, statusCode |-> 0,
     retryAfterSeconds |-> Undefined]

CrmApiError(message, statusCode) ==
    [name |-> "CrmApiError", message |-> message, statusCode |-> statusCode,
     retryAfterSeconds |-> Undefined]

\* errors raised by the JavaScript runtime itself
TypeError == [name |-> "TypeError", message |-> Str("TypeError"), statusCode |-> 0,
              retryAfterSeconds |-> Undefined]
SyntaxError == [name |-> "SyntaxError", message |-> Str("SyntaxError"), statusCode |-> 0,
                retryAfterSeconds |-> Undefined]

\* a settled promise / a completed call
Resolved(v) == [kind |-> "resolved", value |-> v, error |-> NoError]
Rejected(e) == [kind |-> "rejected", value |-> Undefined, error |-> e]
Pending == [kind |-> "pending", value |-> Undefined, error |-> NoError]

-----------------------------------------------------------------------------
(* Transport: XeroClientImpl.getAuthHeaders and XeroClientImpl.request *)

API_BASE_URL == "https://api.xero.com/api.xro/2.0"

\* a constructor that ignores the override
ClientBaseUrlDefaultOnly(creds) == API_BASE_URL

\* constructor: this.baseUrl = credentials.baseUrl || API_BASE_URL
ClientBaseUrl(creds) == Val(OrElse(creds.baseUrl, Str(API_BASE_URL)))

\* getAuthHeaders() without its tenant check: only the access token is required
getAuthHeadersTokenOnly(creds) ==
    IF ~Truthy(creds.accessToken)
    THEN [threw |-> TRUE,
          error |-> AuthenticationError(Str("No access token provided. Include X-Xero-Access-Token header.")),
          headers |-> Empty]
    ELSE [threw |-> FALSE,
          error |-> NoError,
          headers |-> [Authorization |-> "Bearer " \o Val(creds.accessToken),
                       XeroTenantId |-> Val(creds.tenantId),
                       ContentType |-> "application/json",
                       Accept |-> "application/json"]]

\* getAuthHeaders(): throws before any header is built when a credential is empty
getAuthHeaders(creds) ==
    IF ~Truthy(creds.accessToken)
    THEN [threw |-> TRUE,
          error |-> AuthenticationError(Str("No access token provided. Include X-Xero-Access-Token header.")),
          headers |-> Empty]
    ELSE IF ~Truthy(creds.tenantId)
    THEN [threw |-> TRUE,
          error |-> AuthenticationError(Str("No tenant ID provided. Include X-Xero-Tenant-Id header.")),
          headers |-> Empty]
    ELSE [threw |-> FALSE,
          error |-> NoError,
          headers |-> [Authorization |-> "Bearer " \o Val(creds.accessToken),
                       XeroTenantId |-> Val(creds.tenantId),
                       ContentType |-> "application/json",
                       Accept |-> "application/json"]]

\* The Retry-After header as response.headers.get returns it: null when absent,
\* otherwise the string, here a sequence of characters
NoHeader == <<"null", <<>>>>
Header(chars) == <<"string", chars>>

\* parseInt(s, 10): leading white space is skipped, then an optional sign and the
\* longest run of decimal digits; NaN when there is no digit
DigitChars == <<"0", "1", "2", "3", "4", "5", "6", "7", "8", "9">>
Digits == {DigitChars[i] : i \in 1..Len(DigitChars)}
DigitVal(c) == (CHOOSE i \in 1..Len(DigitChars) : DigitChars[i] = c) - 1

RECURSIVE TrimStart(_)
TrimStart(s) == IF s # <<>> /\ Head(s) = " " THEN TrimStart(Tail(s)) ELSE s

RECURSIVE LeadingDigits(_)
LeadingDigits(s) ==
    IF s # <<>> /\ Head(s) \in Digits
    THEN <<Head(s)>> \o LeadingDigits(Tail(s))
    ELSE <<>>

RECURSIVE DecimalValue(_)
DecimalValue(d) ==
    IF d = <<>> THEN 0
    ELSE DecimalValue(SubSeq(d, 1, Len(d) - 1)) * 10 + DigitVal(d[Len(d)])

parseInt(s) ==
    LET t == TrimStart(s)
        neg == t # <<>> /\ Head(t) = "-"
        u == IF t # <<>> /\ Head(t) \in {"-", "+"} THEN Tail(t) ELSE t
        d == LeadingDigits(u)
    IN IF d = <<>> THEN NaN
       ELSE Num(IF neg THEN 0 - DecimalValue(d) ELSE DecimalValue(d))

\* retryAfter ? parseInt(retryAfter, 10) : 60   (null and "" are falsy)
RetryAfterSeconds(header) ==
    IF header # NoHeader /\ Val(header) # <<>>
    THEN parseInt(Val(header))
    ELSE Num(60)

\* A response body whose text JSON.parse / response.json() rejects
InvalidJson == <<"invalid-json", "">>

\* response.ok
ResponseOk(status) == status >= 200 /\ status <= 299

DefaultMessage(status) == Str("Xero API error: " \o ToString(status))

\* e.ValidationErrors?.length is truthy
HasValidationErrors(e) ==
    LET ve == Prop(e, "ValidationErrors")
    IN CASE TypeOf(ve) = "array" -> Len(Val(ve)) > 0
         [] TypeOf(ve) = "string" -> Val(ve) # ""
         [] OTHER -> FALSE

\* the elements .filter(...) keeps
FilterElements(elements) == SelectSeq(elements, HasValidationErrors)

\* e.ValidationErrors?.map(v => v.Message) || []  for an element the filter kept
ElementMessages(e) ==
    LET ve == Val(Prop(e, "ValidationErrors"))
    IN [i \in 1..Len(ve) |-> Prop(ve[i], "Message")]

RECURSIVE FlatMapMessages(_)
FlatMapMessages(elements) ==
    IF elements = <<>> THEN <<>>
    ELSE ElementMessages(Head(elements)) \o FlatMapMessages(Tail(elements))

\* Array.prototype.join: undefined and null elements render as ""
RECURSIVE Join(_, _)
Join(msgs, sep) ==
    LET text(m) == IF TypeOf(m) = "string" THEN Val(m) ELSE ""
    IN IF msgs = <<>> THEN ""
       ELSE IF Len(msgs) = 1 THEN text(msgs[1])
       ELSE text(msgs[1]) \o sep \o Join(Tail(msgs), sep)

\* whether the extraction inside the try block throws (and so is abandoned)
ExtractionThrows(errorJson) ==
    \/ Nullish(errorJson)
    \/ /\ ~Truthy(Prop(errorJson, "Message"))
       /\ Truthy(Prop(errorJson, "Elements"))
       /\ LET els == Prop(errorJson, "Elements")
          IN \/ TypeOf(els) # "array"
             \/ \E i \in 1..Len(Val(els)) : Nullish(Val(els)[i])
             \/ \E i \in 1..Len(Val(els)) :
                   /\ HasValidationErrors(Val(els)[i])
                   /\ LET ve == Prop(Val(els)[i], "ValidationErrors")
                      IN \/ TypeOf(ve) # "array"
                         \/ \E j \in 1..Len(Val(ve)) : Nullish(Val(ve)[j])

\* the message extraction with its two branches swapped: validation errors
\* are preferred to the top-level Message
ErrorMessageElementsFirst(status, body) ==
    IF body = InvalidJson \/ ExtractionThrows(body) THEN DefaultMessage(status)
    ELSE LET els == Prop(body, "Elements")
             validationErrors ==
                 IF Truthy(els) /\ ~ExtractionThrows(Obj([Elements |-> els]))
                 THEN FlatMapMessages(FilterElements(Val(els)))
                 ELSE <<>>
         IN IF Len(validationErrors) > 0 THEN Str(Join(validationErrors, "; "))
            ELSE IF Truthy(Prop(body, "Message")) THEN Prop(body, "Message")
            ELSE DefaultMessage(status)

\* the message of the CrmApiError raised for a non-2xx response
ErrorMessage(status, body) ==
    IF body = InvalidJson \/ ExtractionThrows(body) THEN DefaultMessage(status)
    ELSE IF Truthy(Prop(body, "Message")) THEN Prop(body, "Message")
    ELSE IF Truthy(Prop(body, "Elements"))
    THEN LET validationErrors == FlatMapMessages(FilterElements(Val(Prop(body, "Elements"))))
         IN IF Len(validationErrors) > 0
            THEN Str(Join(validationErrors, "; "))
            ELSE DefaultMessage(status)
    ELSE DefaultMessage(status)

\* request(), from the point where fetch has resolved with a response
request(resp) ==
    IF resp.status = 429
    THEN Rejected(RateLimitError(Str("Rate limit exceeded"), RetryAfterSeconds(resp.retryAfter)))
    ELSE IF resp.status = 401
    THEN Rejected(AuthenticationError(Str("Invalid or expired access token")))
    ELSE IF resp.status = 403
    THEN Rejected(AuthenticationError(Str("Access forbidden. Check tenant ID and permissions.")))
    ELSE IF ~ResponseOk(resp.status)
    THEN Rejected(CrmApiError(ErrorMessage(resp.status, resp.body), resp.status))
    ELSE IF resp.status = 204
    THEN Resolved(Undefined)
    ELSE IF resp.body = InvalidJson
    THEN Rejected(SyntaxError)
    ELSE Resolved(resp.body)

-----------------------------------------------------------------------------
(* Entity mappers, wire to domain (fromWire).  A mapper that reads a member  *)
(* of `this` takes a second argument: whether `this` is bound at the call.   *)

\* mapContact: lines 419-446
mapContact(c) ==
    IF Nullish(c) THEN Thrown
       ELSE ObjOrThrow([
           contactId |-> Prop(c, "ContactID"),
           contactNumber |-> Prop(c, "ContactNumber"),
           accountNumber |-> Prop(c, "AccountNumber"),
           contactStatus |-> Prop(c, "ContactStatus"),
           name |-> Prop(c, "Name"),
           firstName |-> Prop(c, "FirstName"),
           lastName |-> Prop(c, "LastName"),
           emailAddress |-> Prop(c, "EmailAddress"),
           bankAccountDetails |-> Prop(c, "BankAccountDetails"),
           taxNumber |-> Prop(c, "TaxNumber"),
           accountsReceivableTaxType |-> Prop(c, "AccountsReceivableTaxType"),
           accountsPayableTaxType |-> Prop(c, "AccountsPayableTaxType"),
           isSupplier |-> Prop(c, "IsSupplier"),
           isCustomer |-> Prop(c, "IsCustomer"),
           defaultCurrency |-> Prop(c, "DefaultCurrency"),
           updatedDateUtc |-> Prop(c, "UpdatedDateUTC"),
           hasAttachments |-> Prop(c, "HasAttachments"),
           hasValidationErrors |-> Prop(c, "HasValidationErrors"),
           addresses |-> Prop(c, "Addresses"),
           phones |-> Prop(c, "Phones"),
           contactPersons |-> Prop(c, "ContactPersons"),
           balances |-> Prop(c, "Balances"),
           paymentTerms |-> Prop(c, "PaymentTerms"),
           contactGroups |-> Prop(c, "ContactGroups")])

\* mapLineItem: lines 714-729
mapLineItem(li) ==
    IF Nullish(li) THEN Thrown
       ELSE ObjOrThrow([
           lineItemId |-> Prop(li, "LineItemID"),
           description |-> Prop(li, "Description"),
           quantity |-> Prop(li, "Quantity"),
           unitAmount |-> Prop(li, "UnitAmount"),
           itemCode |-> Prop(li, "ItemCode"),
           accountCode |-> Prop(li, "AccountCode"),
           taxType |-> Prop(li, "TaxType"),
           taxAmount |-> Prop(li, "TaxAmount"),
           lineAmount |-> Prop(li, "LineAmount"),
           discountRate |-> Prop(li, "DiscountRate"),
           discountAmount |-> Prop(li, "DiscountAmount"),
           tracking |-> Prop(li, "Tracking")])

\* mapContactGroup: lines 522-529
mapContactGroup(cg, bound) ==
    IF Nullish(cg) THEN Thrown
       ELSE ObjOrThrow([
           contactGroupId |-> Prop(cg, "ContactGroupID"),
           name |-> Prop(cg, "Name"),
           status |-> Prop(cg, "Status"),
           contacts |-> OptMapThis(Prop(cg, "Contacts"), bound, mapContact)])

\* mapAccount: lines 575-597
mapAccount(a) ==
    IF Nullish(a) THEN Thrown
       ELSE ObjOrThrow([
           accountId |-> Prop(a, "AccountID"),
           code |-> Prop(a, "Code"),
           name |-> Prop(a, "Name"),
           type |-> Prop(a, "Type"),
           status |-> Prop(a, "Status"),
           description |-> Prop(a, "Description"),
           taxType |-> Prop(a, "TaxType"),
           class |-> Prop(a, "Class"),
           systemAccount |-> Prop(a, "SystemAccount"),
           enablePaymentsToAccount |-> Prop(a, "EnablePaymentsToAccount"),
           showInExpenseClaims |-> Prop(a, "ShowInExpenseClaims"),
           bankAccountNumber |-> Prop(a, "BankAccountNumber"),
           bankAccountType |-> Prop(a, "BankAccountType"),
           currencyCode |-> Prop(a, "CurrencyCode"),
           reportingCode |-> Prop(a, "ReportingCode"),
           reportingCodeName |-> Prop(a, "ReportingCodeName"),
           hasAttachments |-> Prop(a, "HasAttachments"),
           updatedDateUtc |-> Prop(a, "UpdatedDateUTC"),
           addToWatchlist |-> Prop(a, "AddToWatchlist")])

\* mapInvoice: lines 677-712
mapInvoice(i, bound) ==
    LET contact == Prop(i, "Contact")
    IN IF Nullish(i) THEN Thrown
       ELSE ObjOrThrow([
           invoiceId |-> Prop(i, "InvoiceID"),
           invoiceNumber |-> Prop(i, "InvoiceNumber"),
           reference |-> Prop(i, "Reference"),
           type |-> Prop(i, "Type"),
           status |-> Prop(i, "Status"),
           lineAmountTypes |-> Prop(i, "LineAmountTypes"),
           contact |-> Obj([contactId |-> Prop(contact, "ContactID"), name |-> Prop(contact, "Name")]),
           date |-> Prop(i, "Date"),
           dueDate |-> Prop(i, "DueDate"),
           expectedPaymentDate |-> Prop(i, "ExpectedPaymentDate"),
           plannedPaymentDate |-> Prop(i, "PlannedPaymentDate"),
           currencyCode |-> Prop(i, "CurrencyCode"),
           currencyRate |-> Prop(i, "CurrencyRate"),
           lineItems |-> OptMapThis(Prop(i, "LineItems"), bound, mapLineItem),
           subTotal |-> Prop(i, "SubTotal"),
           totalTax |-> Prop(i, "TotalTax"),
           total |-> Prop(i, "Total"),
           totalDiscount |-> Prop(i, "TotalDiscount"),
           amountDue |-> Prop(i, "AmountDue"),
           amountPaid |-> Prop(i, "AmountPaid"),
           amountCredited |-> Prop(i, "AmountCredited"),
           fullyPaidOnDate |-> Prop(i, "FullyPaidOnDate"),
           url |-> Prop(i, "Url"),
           brandingThemeId |-> Prop(i, "BrandingThemeID"),
           sentToContact |-> Prop(i, "SentToContact"),
           hasAttachments |-> Prop(i, "HasAttachments"),
           hasErrors |-> Prop(i, "HasErrors"),
           updatedDateUtc |-> Prop(i, "UpdatedDateUTC")])

\* mapCreditNote: lines 820-844
mapCreditNote(cn, bound) ==
    LET contact == Prop(cn, "Contact")
    IN IF Nullish(cn) THEN Thrown
       ELSE ObjOrThrow([
           creditNoteId |-> Prop(cn, "CreditNoteID"),
           creditNoteNumber |-> Prop(cn, "CreditNoteNumber"),
           reference |-> Prop(cn, "Reference"),
           type |-> Prop(cn, "Type"),
           status |-> Prop(cn, "Status"),
           contact |-> Obj([contactId |-> Prop(contact, "ContactID"), name |-> Prop(contact, "Name")]),
           date |-> Prop(cn, "Date"),
           currencyCode |-> Prop(cn, "CurrencyCode"),
           currencyRate |-> Prop(cn, "CurrencyRate"),
           lineItems |-> OptMapThis(Prop(cn, "LineItems"), bound, mapLineItem),
           subTotal |-> Prop(cn, "SubTotal"),
           totalTax |-> Prop(cn, "TotalTax"),
           total |-> Prop(cn, "Total"),
           remainingCredit |-> Prop(cn, "RemainingCredit"),
           brandingThemeId |-> Prop(cn, "BrandingThemeID"),
           hasAttachments |-> Prop(cn, "HasAttachments"),
           updatedDateUtc |-> Prop(cn, "UpdatedDateUTC")])

\* mapPayment: lines 910-926
mapPayment(p) ==
    LET invoice == Prop(p, "Invoice")
        account == Prop(p, "Account")
    IN IF Nullish(p) THEN Thrown
       ELSE ObjOrThrow([
           paymentId |-> Prop(p, "PaymentID"),
           paymentType |-> Prop(p, "PaymentType"),
           date |-> Prop(p, "Date"),
           amount |-> Prop(p, "Amount"),
           currencyRate |-> Prop(p, "CurrencyRate"),
           reference |-> Prop(p, "Reference"),
           isReconciled |-> Prop(p, "IsReconciled"),
           status |-> Prop(p, "Status"),
           invoice |-> IF Truthy(invoice) THEN Obj([invoiceId |-> Prop(invoice, "InvoiceID"), invoiceNumber |-> Prop(invoice, "InvoiceNumber")]) ELSE Undefined,
           account |-> IF Truthy(account) THEN Obj([accountId |-> Prop(account, "AccountID"), code |-> Prop(account, "Code")]) ELSE Undefined,
           updatedDateUtc |-> Prop(p, "UpdatedDateUTC")])

\* mapBankTransaction: lines 984-1010
mapBankTransaction(bt, bound) ==
    LET contact == Prop(bt, "Contact")
        bankAccount == Prop(bt, "BankAccount")
    IN IF Nullish(bt) THEN Thrown
       ELSE ObjOrThrow([
           bankTransactionId |-> Prop(bt, "BankTransactionID"),
           type |-> Prop(bt, "Type"),
           status |-> Prop(bt, "Status"),
           contact |-> IF Truthy(contact) THEN Obj([contactId |-> Prop(contact, "ContactID"), name |-> Prop(contact, "Name")]) ELSE Undefined,
           date |-> Prop(bt, "Date"),
           lineItems |-> OptMapThis(Prop(bt, "LineItems"), bound, mapLineItem),
           bankAccount |-> Obj([accountId |-> Prop(bankAccount, "AccountID"), code |-> Prop(bankAccount, "Code"), name |-> Prop(bankAccount, "Name")]),
           isReconciled |-> Prop(bt, "IsReconciled"),
           reference |-> Prop(bt, "Reference"),
           currencyCode |-> Prop(bt, "CurrencyCode"),
           currencyRate |-> Prop(bt, "CurrencyRate"),
           url |-> Prop(bt, "Url"),
           subTotal |-> Prop(bt, "SubTotal"),
           totalTax |-> Prop(bt, "TotalTax"),
           total |-> Prop(bt, "Total"),
           hasAttachments |-> Prop(bt, "HasAttachments"),
           updatedDateUtc |-> Prop(bt, "UpdatedDateUTC")])

\* mapBankTransfer: lines 1074-1097
mapBankTransfer(bt) ==
    LET fromAccount == Prop(bt, "FromBankAccount")
        toAccount == Prop(bt, "ToBankAccount")
    IN IF Nullish(bt) THEN Thrown
       ELSE ObjOrThrow([
           bankTransferId |-> Prop(bt, "BankTransferID"),
           fromBankAccount |-> Obj([accountId |-> Prop(fromAccount, "AccountID"), code |-> Prop(fromAccount, "Code"), name |-> Prop(fromAccount, "Name")]),
           toBankAccount |-> Obj([accountId |-> Prop(toAccount, "AccountID"), code |-> Prop(toAccount, "Code"), name |-> Prop(toAccount, "Name")]),
           amount |-> Prop(bt, "Amount"),
           date |-> Prop(bt, "Date"),
           currencyRate |-> Prop(bt, "CurrencyRate"),
           fromBankTransactionId |-> Prop(bt, "FromBankTransactionID"),
           toBankTransactionId |-> Prop(bt, "ToBankTransactionID"),
           hasAttachments |-> Prop(bt, "HasAttachments"),
           createdDateUtc |-> Prop(bt, "CreatedDateUTC")])

\* mapItem: lines 1138-1166
mapItem(i) ==
    LET purchaseDetails == Prop(i, "PurchaseDetails")
        salesDetails == Prop(i, "SalesDetails")
    IN IF Nullish(i) THEN Thrown
       ELSE ObjOrThrow([
           itemId |-> Prop(i, "ItemID"),
           code |-> Prop(i, "Code"),
           name |-> Prop(i, "Name"),
           description |-> Prop(i, "Description"),
           purchaseDescription |-> Prop(i, "PurchaseDescription"),
           purchaseDetails |-> IF Truthy(purchaseDetails) THEN Obj([unitPrice |-> Prop(purchaseDetails, "UnitPrice"), accountCode |-> Prop(purchaseDetails, "AccountCode"), cogsAccountCode |-> Prop(purchaseDetails, "COGSAccountCode"), taxType |-> Prop(purchaseDetails, "TaxType")]) ELSE Undefined,
           salesDetails |-> IF Truthy(salesDetails) THEN Obj([unitPrice |-> Prop(salesDetails, "UnitPrice"), accountCode |-> Prop(salesDetails, "AccountCode"), taxType |-> Prop(salesDetails, "TaxType")]) ELSE Undefined,
           isTrackedAsInventory |-> Prop(i, "IsTrackedAsInventory"),
           inventoryAssetAccountCode |-> Prop(i, "InventoryAssetAccountCode"),
           totalCostPool |-> Prop(i, "TotalCostPool"),
           quantityOnHand |-> Prop(i, "QuantityOnHand"),
           isSold |-> Prop(i, "IsSold"),
           isPurchased |-> Prop(i, "IsPurchased"),
           updatedDateUtc |-> Prop(i, "UpdatedDateUTC")])

\* mapPurchaseOrder: lines 1247-1275
mapPurchaseOrder(po, bound) ==
    LET contact == Prop(po, "Contact")
    IN IF Nullish(po) THEN Thrown
       ELSE ObjOrThrow([
           purchaseOrderId |-> Prop(po, "PurchaseOrderID"),
           purchaseOrderNumber |-> Prop(po, "PurchaseOrderNumber"),
           reference |-> Prop(po, "Reference"),
           status |-> Prop(po, "Status"),
           contact |-> Obj([contactId |-> Prop(contact, "ContactID"), name |-> Prop(contact, "Name")]),
           date |-> Prop(po, "Date"),
           deliveryDate |-> Prop(po, "DeliveryDate"),
           deliveryAddress |-> Prop(po, "DeliveryAddress"),
           attentionTo |-> Prop(po, "AttentionTo"),
           telephone |-> Prop(po, "Telephone"),
           deliveryInstructions |-> Prop(po, "DeliveryInstructions"),
           expectedArrivalDate |-> Prop(po, "ExpectedArrivalDate"),
           currencyCode |-> Prop(po, "CurrencyCode"),
           currencyRate |-> Prop(po, "CurrencyRate"),
           lineItems |-> OptMapThis(Prop(po, "LineItems"), bound, mapLineItem),
           subTotal |-> Prop(po, "SubTotal"),
           totalTax |-> Prop(po, "TotalTax"),
           total |-> Prop(po, "Total"),
           totalDiscount |-> Prop(po, "TotalDiscount"),
           hasAttachments |-> Prop(po, "HasAttachments"),
           updatedDateUtc |-> Prop(po, "UpdatedDateUTC")])

\* mapQuote: lines 1353-1379
mapQuote(q, bound) ==
    LET contact == Prop(q, "Contact")
    IN IF Nullish(q) THEN Thrown
       ELSE ObjOrThrow([
           quoteId |-> Prop(q, "QuoteID"),
           quoteNumber |-> Prop(q, "QuoteNumber"),
           reference |-> Prop(q, "Reference"),
           status |-> Prop(q, "Status"),
           contact |-> Obj([contactId |-> Prop(contact, "ContactID"), name |-> Prop(contact, "Name")]),
           date |-> Prop(q, "Date"),
           expiryDate |-> Prop(q, "ExpiryDate"),
           currencyCode |-> Prop(q, "CurrencyCode"),
           currencyRate |-> Prop(q, "CurrencyRate"),
           lineItems |-> OptMapThis(Prop(q, "LineItems"), bound, mapLineItem),
           subTotal |-> Prop(q, "SubTotal"),
           totalTax |-> Prop(q, "TotalTax"),
           total |-> Prop(q, "Total"),
           totalDiscount |-> Prop(q, "TotalDiscount"),
           title |-> Prop(q, "Title"),
           summary |-> Prop(q, "Summary"),
           terms |-> Prop(q, "Terms"),
           brandingThemeId |-> Prop(q, "BrandingThemeID"),
           updatedDateUtc |-> Prop(q, "UpdatedDateUTC")])

\* mapPrepayment: lines 1445-1464
mapPrepayment(pp, bound) ==
    LET contact == Prop(pp, "Contact")
    IN IF Nullish(pp) THEN Thrown
       ELSE ObjOrThrow([
           prepaymentId |-> Prop(pp, "PrepaymentID"),
           type |-> Prop(pp, "Type"),
           contact |-> IF Truthy(contact) THEN Obj([contactId |-> Prop(contact, "ContactID"), name |-> Prop(contact, "Name")]) ELSE Undefined,
           date |-> Prop(pp, "Date"),
           status |-> Prop(pp, "Status"),
           lineAmountTypes |-> Prop(pp, "LineAmountTypes"),
           lineItems |-> OptMapThis(Prop(pp, "LineItems"), bound, mapLineItem),
           subTotal |-> Prop(pp, "SubTotal"),
           totalTax |-> Prop(pp, "TotalTax"),
           total |-> Prop(pp, "Total"),
           remainingCredit |-> Prop(pp, "RemainingCredit"),
           currencyCode |-> Prop(pp, "CurrencyCode"),
           currencyRate |-> Prop(pp, "CurrencyRate"),
           hasAttachments |-> Prop(pp, "HasAttachments"),
           updatedDateUtc |-> Prop(pp, "UpdatedDateUTC")])

\* mapOverpayment: lines 1504-1523
mapOverpayment(op, bound) ==
    LET contact == Prop(op, "Contact")
    IN IF Nullish(op) THEN Thrown
       ELSE ObjOrThrow([
           overpaymentId |-> Prop(op, "OverpaymentID"),
           type |-> Prop(op, "Type"),
           contact |-> IF Truthy(contact) THEN Obj([contactId |-> Prop(contact, "ContactID"), name |-> Prop(contact, "Name")]) ELSE Undefined,
           date |-> Prop(op, "Date"),
           status |-> Prop(op, "Status"),
           lineAmountTypes |-> Prop(op, "LineAmountTypes"),
           lineItems |-> OptMapThis(Prop(op, "LineItems"), bound, mapLineItem),
           subTotal |-> Prop(op, "SubTotal"),
           totalTax |-> Prop(op, "TotalTax"),
           total |-> Prop(op, "Total"),
           remainingCredit |-> Prop(op, "RemainingCredit"),
           currencyCode |-> Prop(op, "CurrencyCode"),
           currencyRate |-> Prop(op, "CurrencyRate"),
           hasAttachments |-> Prop(op, "HasAttachments"),
           updatedDateUtc |-> Prop(op, "UpdatedDateUTC")])

\* mapJournal: lines 1546-1569
mapJournal(j) ==
    LET journalLinesOf(jl) == IF Nullish(jl) THEN Thrown ELSE Obj([journalLineId |-> Prop(jl, "JournalLineID"), accountId |-> Prop(jl, "AccountID"), accountCode |-> Prop(jl, "AccountCode"), accountType |-> Prop(jl, "AccountType"), accountName |-> Prop(jl, "AccountName"), description |-> Prop(jl, "Description"), netAmount |-> Prop(jl, "NetAmount"), grossAmount |-> Prop(jl, "GrossAmount"), taxAmount |-> Prop(jl, "TaxAmount"), taxType |-> Prop(jl, "TaxType"), taxName |-> Prop(jl, "TaxName")])
    IN IF Nullish(j) THEN Thrown
       ELSE ObjOrThrow([
           journalId |-> Prop(j, "JournalID"),
           journalDate |-> Prop(j, "JournalDate"),
           journalNumber |-> Prop(j, "JournalNumber"),
           createdDateUtc |-> Prop(j, "CreatedDateUTC"),
           reference |-> Prop(j, "Reference"),
           sourceId |-> Prop(j, "SourceID"),
           sourceType |-> Prop(j, "SourceType"),
           journalLines |-> OptMap(Prop(j, "JournalLines"), journalLinesOf)])

\* mapManualJournal: lines 1614-1634
mapManualJournal(mj) ==
    LET journalLinesOf(jl) == IF Nullish(jl) THEN Thrown ELSE Obj([lineAmount |-> Prop(jl, "LineAmount"), accountCode |-> Prop(jl, "AccountCode"), accountId |-> Prop(jl, "AccountID"), description |-> Prop(jl, "Description"), taxType |-> Prop(jl, "TaxType"), taxAmount |-> Prop(jl, "TaxAmount")])
    IN IF Nullish(mj) THEN Thrown
       ELSE ObjOrThrow([
           manualJournalId |-> Prop(mj, "ManualJournalID"),
           date |-> Prop(mj, "Date"),
           status |-> Prop(mj, "Status"),
           narration |-> Prop(mj, "Narration"),
           lineAmountTypes |-> Prop(mj, "LineAmountTypes"),
           journalLines |-> OptMap(Prop(mj, "JournalLines"), journalLinesOf),
           url |-> Prop(mj, "Url"),
           showOnCashBasisReports |-> Prop(mj, "ShowOnCashBasisReports"),
           hasAttachments |-> Prop(mj, "HasAttachments"),
           updatedDateUtc |-> Prop(mj, "UpdatedDateUTC")])

\* mapBatchPayment: lines 1696-1711
mapBatchPayment(bp) ==
    LET account == Prop(bp, "Account")
    IN IF Nullish(bp) THEN Thrown
       ELSE ObjOrThrow([
           batchPaymentId |-> Prop(bp, "BatchPaymentID"),
           account |-> IF Truthy(account) THEN Obj([accountId |-> Prop(account, "AccountID"), code |-> Prop(account, "Code")]) ELSE Undefined,
           particulars |-> Prop(bp, "Particulars"),
           code |-> Prop(bp, "Code"),
           reference |-> Prop(bp, "Reference"),
           date |-> Prop(bp, "Date"),
           type |-> Prop(bp, "Type"),
           status |-> Prop(bp, "Status"),
           totalAmount |-> Prop(bp, "TotalAmount"),
           isReconciled |-> Prop(bp, "IsReconciled"),
           updatedDateUtc |-> Prop(bp, "UpdatedDateUTC")])

\* mapTaxRate: lines 1762-1782
mapTaxRate(tr) ==
    LET taxComponentsOf(tc) == IF Nullish(tc) THEN Thrown ELSE Obj([name |-> Prop(tc, "Name"), rate |-> Prop(tc, "Rate"), isCompound |-> Prop(tc, "IsCompound"), isNonRecoverable |-> Prop(tc, "IsNonRecoverable")])
    IN IF Nullish(tr) THEN Thrown
       ELSE ObjOrThrow([
           name |-> Prop(tr, "Name"),
           taxType |-> Prop(tr, "TaxType"),
           taxComponents |-> OptMap(Prop(tr, "TaxComponents"), taxComponentsOf),
           status |-> Prop(tr, "Status"),
           reportTaxType |-> Prop(tr, "ReportTaxType"),
           canApplyToAssets |-> Prop(tr, "CanApplyToAssets"),
           canApplyToEquity |-> Prop(tr, "CanApplyToEquity"),
           canApplyToExpenses |-> Prop(tr, "CanApplyToExpenses"),
           canApplyToLiabilities |-> Prop(tr, "CanApplyToLiabilities"),
           canApplyToRevenue |-> Prop(tr, "CanApplyToRevenue"),
           displayTaxRate |-> Prop(tr, "DisplayTaxRate"),
           effectiveRate |-> Prop(tr, "EffectiveRate")])

\* mapTrackingCategory: lines 1876-1887
mapTrackingCategory(tc) ==
    LET optionsOf(o) == IF Nullish(o) THEN Thrown ELSE Obj([trackingOptionId |-> Prop(o, "TrackingOptionID"), name |-> Prop(o, "Name"), status |-> Prop(o, "Status")])
    IN IF Nullish(tc) THEN Thrown
       ELSE ObjOrThrow([
           trackingCategoryId |-> Prop(tc, "TrackingCategoryID"),
           name |-> Prop(tc, "Name"),
           status |-> Prop(tc, "Status"),
           options |-> OptMap(Prop(tc, "Options"), optionsOf)])

\* mapBrandingTheme: lines 1903-1912
mapBrandingTheme(bt) ==
    IF Nullish(bt) THEN Thrown
       ELSE ObjOrThrow([
           brandingThemeId |-> Prop(bt, "BrandingThemeID"),
           name |-> Prop(bt, "Name"),
           logoUrl |-> Prop(bt, "LogoUrl"),
           type |-> Prop(bt, "Type"),
           sortOrder |-> Prop(bt, "SortOrder"),
           createdDateUtc |-> Prop(bt, "CreatedDateUTC")])

\* mapRepeatingInvoice: lines 1951-1985
mapRepeatingInvoice(ri, bound) ==
    LET contact == Prop(ri, "Contact")
        schedule == Prop(ri, "Schedule")
    IN IF Nullish(ri) THEN Thrown
       ELSE ObjOrThrow([
           repeatingInvoiceId |-> Prop(ri, "RepeatingInvoiceID"),
           type |-> Prop(ri, "Type"),
           reference |-> Prop(ri, "Reference"),
           hasAttachments |-> Prop(ri, "HasAttachments"),
           contact |-> Obj([contactId |-> Prop(contact, "ContactID"), name |-> Prop(contact, "Name")]),
           schedule |-> IF Truthy(schedule) THEN Obj([period |-> Prop(schedule, "Period"), unit |-> Prop(schedule, "Unit"), dueDate |-> Prop(schedule, "DueDate"), dueDateType |-> Prop(schedule, "DueDateType"), startDate |-> Prop(schedule, "StartDate"), nextScheduledDate |-> Prop(schedule, "NextScheduledDate"), endDate |-> Prop(schedule, "EndDate")]) ELSE Undefined,
           lineItems |-> OptMapThis(Prop(ri, "LineItems"), bound, mapLineItem),
           lineAmountTypes |-> Prop(ri, "LineAmountTypes"),
           status |-> Prop(ri, "Status"),
           subTotal |-> Prop(ri, "SubTotal"),
           totalTax |-> Prop(ri, "TotalTax"),
           total |-> Prop(ri, "Total"),
           currencyCode |-> Prop(ri, "CurrencyCode"),
           brandingThemeId |-> Prop(ri, "BrandingThemeID"),
           approvedForSending |-> Prop(ri, "ApprovedForSending"),
           sendCopy |-> Prop(ri, "SendCopy"),
           markAsSent |-> Prop(ri, "MarkAsSent"),
           includePdf |-> Prop(ri, "IncludePDF")])

\* mapUser: lines 2037-2047
mapUser(u) ==
    IF Nullish(u) THEN Thrown
       ELSE ObjOrThrow([
           userId |-> Prop(u, "UserID"),
           emailAddress |-> Prop(u, "EmailAddress"),
           firstName |-> Prop(u, "FirstName"),
           lastName |-> Prop(u, "LastName"),
           updatedDateUtc |-> Prop(u, "UpdatedDateUTC"),
           isSubscriber |-> Prop(u, "IsSubscriber"),
           organisationRole |-> Prop(u, "OrganisationRole")])

\* mapLinkedTransaction: lines 2107-2120
mapLinkedTransaction(lt) ==
    IF Nullish(lt) THEN Thrown
       ELSE ObjOrThrow([
           linkedTransactionId |-> Prop(lt, "LinkedTransactionID"),
           sourceTransactionId |-> Prop(lt, "SourceTransactionID"),
           sourceLineItemId |-> Prop(lt, "SourceLineItemID"),
           sourceTransactionTypeCode |-> Prop(lt, "SourceTransactionTypeCode"),
           contactId |-> Prop(lt, "ContactID"),
           targetTransactionId |-> Prop(lt, "TargetTransactionID"),
           targetLineItemId |-> Prop(lt, "TargetLineItemID"),
           status |-> Prop(lt, "Status"),
           type |-> Prop(lt, "Type"),
           updatedDateUtc |-> Prop(lt, "UpdatedDateUTC")])

\* mapReport: lines 2204-2214
mapReport(r) ==
    IF Nullish(r) THEN Thrown
       ELSE ObjOrThrow([
           reportId |-> Prop(r, "ReportID"),
           reportName |-> Prop(r, "ReportName"),
           reportType |-> Prop(r, "ReportType"),
           reportTitles |-> Prop(r, "ReportTitles"),
           reportDate |-> Prop(r, "ReportDate"),
           updatedDateUtc |-> Prop(r, "UpdatedDateUTC"),
           rows |-> Prop(r, "Rows")])

-----------------------------------------------------------------------------
(* Entity mappers, domain to wire (toWire) *)

\* mapContactToXero: lines 448-469
mapContactToXero(contact) ==
    Obj(IfTruthy(contact, "name", "Name")
        @@ IfTruthy(contact, "firstName", "FirstName")
        @@ IfTruthy(contact, "lastName", "LastName")
        @@ IfTruthy(contact, "emailAddress", "EmailAddress")
        @@ IfTruthy(contact, "contactNumber", "ContactNumber")
        @@ IfTruthy(contact, "accountNumber", "AccountNumber")
        @@ IfTruthy(contact, "contactStatus", "ContactStatus")
        @@ IfTruthy(contact, "bankAccountDetails", "BankAccountDetails")
        @@ IfTruthy(contact, "taxNumber", "TaxNumber")
        @@ IfTruthy(contact, "accountsReceivableTaxType", "AccountsReceivableTaxType")
        @@ IfTruthy(contact, "accountsPayableTaxType", "AccountsPayableTaxType")
        @@ IfDefined(contact, "isSupplier", "IsSupplier")
        @@ IfDefined(contact, "isCustomer", "IsCustomer")
        @@ IfTruthy(contact, "defaultCurrency", "DefaultCurrency")
        @@ IfTruthy(contact, "addresses", "Addresses")
        @@ IfTruthy(contact, "phones", "Phones")
        @@ IfTruthy(contact, "contactPersons", "ContactPersons")
        @@ IfTruthy(contact, "paymentTerms", "PaymentTerms"))

\* mapAccountToXero: lines 599-614
mapAccountToXero(account) ==
    Obj(IfTruthy(account, "code", "Code")
        @@ IfTruthy(account, "name", "Name")
        @@ IfTruthy(account, "type", "Type")
        @@ IfTruthy(account, "status", "Status")
        @@ IfTruthy(account, "description", "Description")
        @@ IfTruthy(account, "taxType", "TaxType")
        @@ IfDefined(account, "enablePaymentsToAccount", "EnablePaymentsToAccount")
        @@ IfDefined(account, "showInExpenseClaims", "ShowInExpenseClaims")
        @@ IfTruthy(account, "bankAccountNumber", "BankAccountNumber")
        @@ IfTruthy(account, "bankAccountType", "BankAccountType")
        @@ IfTruthy(account, "currencyCode", "CurrencyCode")
        @@ IfDefined(account, "addToWatchlist", "AddToWatchlist"))

\* mapInvoiceToXero: lines 731-756
mapInvoiceToXero(invoice) ==
    LET lineItemsToXero(li) == Obj([Description |-> Prop(li, "description"), Quantity |-> Prop(li, "quantity"), UnitAmount |-> Prop(li, "unitAmount"), ItemCode |-> Prop(li, "itemCode"), AccountCode |-> Prop(li, "accountCode"), TaxType |-> Prop(li, "taxType"), DiscountRate |-> Prop(li, "discountRate"), Tracking |-> Prop(li, "tracking")])
    IN Obj(IfTruthy(invoice, "type", "Type")
           @@ (IF Truthy(Prop(invoice, "contact")) THEN "Contact" :> Obj([ContactID |-> Prop(Prop(invoice, "contact"), "contactId")]) ELSE Empty)
           @@ IfTruthy(invoice, "date", "Date")
           @@ IfTruthy(invoice, "dueDate", "DueDate")
           @@ IfTruthy(invoice, "lineAmountTypes", "LineAmountTypes")
           @@ IfTruthy(invoice, "invoiceNumber", "InvoiceNumber")
           @@ IfTruthy(invoice, "reference", "Reference")
           @@ IfTruthy(invoice, "currencyCode", "CurrencyCode")
           @@ IfTruthy(invoice, "status", "Status")
           @@ IfTruthy(invoice, "brandingThemeId", "BrandingThemeID")
           @@ (IF Truthy(Prop(invoice, "lineItems")) THEN "LineItems" :> MapElements(Prop(invoice, "lineItems"), lineItemsToXero) ELSE Empty))

\* mapCreditNoteToXero that also copies the total of the entity it is given
mapCreditNoteToXeroWithTotal(creditNote) ==
    LET lineItemsToXero(li) == Obj([Description |-> Prop(li, "description"), Quantity |-> Prop(li, "quantity"), UnitAmount |-> Prop(li, "unitAmount"), ItemCode |-> Prop(li, "itemCode"), AccountCode |-> Prop(li, "accountCode"), TaxType |-> Prop(li, "taxType")])
    IN Obj(IfTruthy(creditNote, "type", "Type")
           @@ (IF Truthy(Prop(creditNote, "contact")) THEN "Contact" :> Obj([ContactID |-> Prop(Prop(creditNote, "contact"), "contactId")]) ELSE Empty)
           @@ IfTruthy(creditNote, "date", "Date")
           @@ IfTruthy(creditNote, "status", "Status")
           @@ IfTruthy(creditNote, "reference", "Reference")
           @@ IfTruthy(creditNote, "currencyCode", "CurrencyCode")
           @@ IfTruthy(creditNote, "brandingThemeId", "BrandingThemeID")
           @@ IfTruthy(creditNote, "total", "Total")
           @@ (IF Truthy(Prop(creditNote, "lineItems")) THEN "LineItems" :> MapElements(Prop(creditNote, "lineItems"), lineItemsToXero) ELSE Empty))

\* mapCreditNoteToXero: lines 846-866
mapCreditNoteToXero(creditNote) ==
    LET lineItemsToXero(li) == Obj([Description |-> Prop(li, "description"), Quantity |-> Prop(li, "quantity"), UnitAmount |-> Prop(li, "unitAmount"), ItemCode |-> Prop(li, "itemCode"), AccountCode |-> Prop(li, "accountCode"), TaxType |-> Prop(li, "taxType")])
    IN Obj(IfTruthy(creditNote, "type", "Type")
           @@ (IF Truthy(Prop(creditNote, "contact")) THEN "Contact" :> Obj([ContactID |-> Prop(Prop(creditNote, "contact"), "contactId")]) ELSE Empty)
           @@ IfTruthy(creditNote, "date", "Date")
           @@ IfTruthy(creditNote, "status", "Status")
           @@ IfTruthy(creditNote, "reference", "Reference")
           @@ IfTruthy(creditNote, "currencyCode", "CurrencyCode")
           @@ IfTruthy(creditNote, "brandingThemeId", "BrandingThemeID")
           @@ (IF Truthy(Prop(creditNote, "lineItems")) THEN "LineItems" :> MapElements(Prop(creditNote, "lineItems"), lineItemsToXero) ELSE Empty))

\* mapPaymentToXero: lines 928-937
mapPaymentToXero(payment) ==
    Obj((IF Truthy(Prop(payment, "invoice")) THEN "Invoice" :> Obj([InvoiceID |-> Prop(Prop(payment, "invoice"), "invoiceId")]) ELSE Empty)
        @@ (IF Truthy(Prop(payment, "account")) THEN "Account" :> Obj([AccountID |-> Prop(Prop(payment, "account"), "accountId")]) ELSE Empty)
        @@ IfTruthy(payment, "date", "Date")
        @@ IfTruthy(payment, "amount", "Amount")
        @@ IfTruthy(payment, "reference", "Reference")
        @@ IfDefined(payment, "isReconciled", "IsReconciled"))

\* mapBankTransactionToXero: lines 1012-1030
mapBankTransactionToXero(transaction) ==
    LET lineItemsToXero(li) == Obj([Description |-> Prop(li, "description"), Quantity |-> Prop(li, "quantity"), UnitAmount |-> Prop(li, "unitAmount"), AccountCode |-> Prop(li, "accountCode"), TaxType |-> Prop(li, "taxType")])
    IN Obj(IfTruthy(transaction, "type", "Type")
           @@ (IF Truthy(Prop(transaction, "contact")) THEN "Contact" :> Obj([ContactID |-> Prop(Prop(transaction, "contact"), "contactId")]) ELSE Empty)
           @@ (IF Truthy(Prop(transaction, "bankAccount")) THEN "BankAccount" :> Obj([AccountID |-> Prop(Prop(transaction, "bankAccount"), "accountId")]) ELSE Empty)
           @@ IfTruthy(transaction, "date", "Date")
           @@ IfTruthy(transaction, "reference", "Reference")
           @@ IfTruthy(transaction, "currencyCode", "CurrencyCode")
           @@ (IF Truthy(Prop(transaction, "lineItems")) THEN "LineItems" :> MapElements(Prop(transaction, "lineItems"), lineItemsToXero) ELSE Empty))

\* mapItemToXero with every field, the booleans included, behind a truthiness check
mapItemToXeroTruthy(item) ==
    Obj(IfTruthy(item, "code", "Code")
        @@ IfTruthy(item, "name", "Name")
        @@ IfTruthy(item, "description", "Description")
        @@ IfTruthy(item, "purchaseDescription", "PurchaseDescription")
        @@ (IF Truthy(Prop(item, "purchaseDetails")) THEN "PurchaseDetails" :> Obj([UnitPrice |-> Prop(Prop(item, "purchaseDetails"), "unitPrice"), AccountCode |-> Prop(Prop(item, "purchaseDetails"), "accountCode"), COGSAccountCode |-> Prop(Prop(item, "purchaseDetails"), "cogsAccountCode"), TaxType |-> Prop(Prop(item, "purchaseDetails"), "taxType")]) ELSE Empty)
        @@ (IF Truthy(Prop(item, "salesDetails")) THEN "SalesDetails" :> Obj([UnitPrice |-> Prop(Prop(item, "salesDetails"), "unitPrice"), AccountCode |-> Prop(Prop(item, "salesDetails"), "accountCode"), TaxType |-> Prop(Prop(item, "salesDetails"), "taxType")]) ELSE Empty)
        @@ IfTruthy(item, "isTrackedAsInventory", "IsTrackedAsInventory")
        @@ IfTruthy(item, "inventoryAssetAccountCode", "InventoryAssetAccountCode")
        @@ IfTruthy(item, "isSold", "IsSold")
        @@ IfTruthy(item, "isPurchased", "IsPurchased"))

\* mapItemToXero: lines 1168-1194
mapItemToXero(item) ==
    Obj(IfTruthy(item, "code", "Code")
        @@ IfTruthy(item, "name", "Name")
        @@ IfTruthy(item, "description", "Description")
        @@ IfTruthy(item, "purchaseDescription", "PurchaseDescription")
        @@ (IF Truthy(Prop(item, "purchaseDetails")) THEN "PurchaseDetails" :> Obj([UnitPrice |-> Prop(Prop(item, "purchaseDetails"), "unitPrice"), AccountCode |-> Prop(Prop(item, "purchaseDetails"), "accountCode"), COGSAccountCode |-> Prop(Prop(item, "purchaseDetails"), "cogsAccountCode"), TaxType |-> Prop(Prop(item, "purchaseDetails"), "taxType")]) ELSE Empty)
        @@ (IF Truthy(Prop(item, "salesDetails")) THEN "SalesDetails" :> Obj([UnitPrice |-> Prop(Prop(item, "salesDetails"), "unitPrice"), AccountCode |-> Prop(Prop(item, "salesDetails"), "accountCode"), TaxType |-> Prop(Prop(item, "salesDetails"), "taxType")]) ELSE Empty)
        @@ IfDefined(item, "isTrackedAsInventory", "IsTrackedAsInventory")
        @@ IfTruthy(item, "inventoryAssetAccountCode", "InventoryAssetAccountCode")
        @@ IfDefined(item, "isSold", "IsSold")
        @@ IfDefined(item, "isPurchased", "IsPurchased"))

\* mapPurchaseOrderToXero: lines 1277-1300
mapPurchaseOrderToXero(order) ==
    LET lineItemsToXero(li) == Obj([Description |-> Prop(li, "description"), Quantity |-> Prop(li, "quantity"), UnitAmount |-> Prop(li, "unitAmount"), ItemCode |-> Prop(li, "itemCode"), AccountCode |-> Prop(li, "accountCode"), TaxType |-> Prop(li, "taxType")])
    IN Obj((IF Truthy(Prop(order, "contact")) THEN "Contact" :> Obj([ContactID |-> Prop(Prop(order, "contact"), "contactId")]) ELSE Empty)
           @@ IfTruthy(order, "date", "Date")
           @@ IfTruthy(order, "deliveryDate", "DeliveryDate")
           @@ IfTruthy(order, "status", "Status")
           @@ IfTruthy(order, "reference", "Reference")
           @@ IfTruthy(order, "deliveryAddress", "DeliveryAddress")
           @@ IfTruthy(order, "attentionTo", "AttentionTo")
           @@ IfTruthy(order, "telephone", "Telephone")
           @@ IfTruthy(order, "deliveryInstructions", "DeliveryInstructions")
           @@ IfTruthy(order, "currencyCode", "CurrencyCode")
           @@ (IF Truthy(Prop(order, "lineItems")) THEN "LineItems" :> MapElements(Prop(order, "lineItems"), lineItemsToXero) ELSE Empty))

\* mapQuoteToXero: lines 1381-1405
mapQuoteToXero(quote) ==
    LET lineItemsToXero(li) == Obj([Description |-> Prop(li, "description"), Quantity |-> Prop(li, "quantity"), UnitAmount |-> Prop(li, "unitAmount"), ItemCode |-> Prop(li, "itemCode"), AccountCode |-> Prop(li, "accountCode"), TaxType |-> Prop(li, "taxType"), DiscountRate |-> Prop(li, "discountRate")])
    IN Obj((IF Truthy(Prop(quote, "contact")) THEN "Contact" :> Obj([ContactID |-> Prop(Prop(quote, "contact"), "contactId")]) ELSE Empty)
           @@ IfTruthy(quote, "date", "Date")
           @@ IfTruthy(quote, "expiryDate", "ExpiryDate")
           @@ IfTruthy(quote, "status", "Status")
           @@ IfTruthy(quote, "reference", "Reference")
           @@ IfTruthy(quote, "title", "Title")
           @@ IfTruthy(quote, "summary", "Summary")
           @@ IfTruthy(quote, "terms", "Terms")
           @@ IfTruthy(quote, "currencyCode", "CurrencyCode")
           @@ IfTruthy(quote, "brandingThemeId", "BrandingThemeID")
           @@ (IF Truthy(Prop(quote, "lineItems")) THEN "LineItems" :> MapElements(Prop(quote, "lineItems"), lineItemsToXero) ELSE Empty))

\* an array back to front
Reversed(arr) == Arr([i \in 1..Len(Val(arr)) |-> Val(arr)[Len(Val(arr)) + 1 - i]])

\* mapManualJournalToXero that writes the journal lines in reverse order
mapManualJournalToXeroReversed(journal) ==
    LET journalLinesToXero(jl) == Obj([LineAmount |-> Prop(jl, "lineAmount"), AccountCode |-> Prop(jl, "accountCode"), Description |-> Prop(jl, "description"), TaxType |-> Prop(jl, "taxType")])
    IN Obj(IfTruthy(journal, "narration", "Narration")
           @@ IfTruthy(journal, "date", "Date")
           @@ IfTruthy(journal, "status", "Status")
           @@ IfTruthy(journal, "lineAmountTypes", "LineAmountTypes")
           @@ IfDefined(journal, "showOnCashBasisReports", "ShowOnCashBasisReports")
           @@ (IF Truthy(Prop(journal, "journalLines")) THEN "JournalLines" :> Reversed(MapElements(Prop(journal, "journalLines"), journalLinesToXero)) ELSE Empty))

\* mapManualJournalToXero: lines 1636-1652
mapManualJournalToXero(journal) ==
    LET journalLinesToXero(jl) == Obj([LineAmount |-> Prop(jl, "lineAmount"), AccountCode |-> Prop(jl, "accountCode"), Description |-> Prop(jl, "description"), TaxType |-> Prop(jl, "taxType")])
    IN Obj(IfTruthy(journal, "narration", "Narration")
           @@ IfTruthy(journal, "date", "Date")
           @@ IfTruthy(journal, "status", "Status")
           @@ IfTruthy(journal, "lineAmountTypes", "LineAmountTypes")
           @@ IfDefined(journal, "showOnCashBasisReports", "ShowOnCashBasisReports")
           @@ (IF Truthy(Prop(journal, "journalLines")) THEN "JournalLines" :> MapElements(Prop(journal, "journalLines"), journalLinesToXero) ELSE Empty))

\* mapBatchPaymentToXero: lines 1713-1730
mapBatchPaymentToXero(payment) ==
    LET paymentsToXero(p) == Obj([Invoice |-> IF Truthy(Prop(p, "invoice")) THEN Obj([InvoiceID |-> Prop(Prop(p, "invoice"), "invoiceId")]) ELSE Undefined, Account |-> IF Truthy(Prop(p, "account")) THEN Obj([AccountID |-> Prop(Prop(p, "account"), "accountId")]) ELSE Undefined, Date |-> Prop(p, "date"), Amount |-> Prop(p, "amount"), Reference |-> Prop(p, "reference")])
    IN Obj((IF Truthy(Prop(payment, "account")) THEN "Account" :> Obj([AccountID |-> Prop(Prop(payment, "account"), "accountId")]) ELSE Empty)
           @@ IfTruthy(payment, "date", "Date")
           @@ IfTruthy(payment, "particulars", "Particulars")
           @@ IfTruthy(payment, "code", "Code")
           @@ IfTruthy(payment, "reference", "Reference")
           @@ (IF Truthy(Prop(payment, "payments")) THEN "Payments" :> MapElements(Prop(payment, "payments"), paymentsToXero) ELSE Empty))

\* mapTaxRateToXero: lines 1784-1799
mapTaxRateToXero(taxRate) ==
    LET taxComponentsToXero(tc) == Obj([Name |-> Prop(tc, "name"), Rate |-> Prop(tc, "rate"), IsCompound |-> Prop(tc, "isCompound"), IsNonRecoverable |-> Prop(tc, "isNonRecoverable")])
    IN Obj(IfTruthy(taxRate, "name", "Name")
           @@ IfTruthy(taxRate, "taxType", "TaxType")
           @@ IfTruthy(taxRate, "status", "Status")
           @@ IfTruthy(taxRate, "reportTaxType", "ReportTaxType")
           @@ (IF Truthy(Prop(taxRate, "taxComponents")) THEN "TaxComponents" :> MapElements(Prop(taxRate, "taxComponents"), taxComponentsToXero) ELSE Empty))

\* mapRepeatingInvoiceToXero: lines 1987-2021
mapRepeatingInvoiceToXero(invoice) ==
    LET lineItemsToXero(li) == Obj([Description |-> Prop(li, "description"), Quantity |-> Prop(li, "quantity"), UnitAmount |-> Prop(li, "unitAmount"), ItemCode |-> Prop(li, "itemCode"), AccountCode |-> Prop(li, "accountCode"), TaxType |-> Prop(li, "taxType")])
    IN Obj(IfTruthy(invoice, "type", "Type")
           @@ (IF Truthy(Prop(invoice, "contact")) THEN "Contact" :> Obj([ContactID |-> Prop(Prop(invoice, "contact"), "contactId")]) ELSE Empty)
           @@ IfTruthy(invoice, "reference", "Reference")
           @@ IfTruthy(invoice, "status", "Status")
           @@ IfTruthy(invoice, "lineAmountTypes", "LineAmountTypes")
           @@ IfTruthy(invoice, "currencyCode", "CurrencyCode")
           @@ IfTruthy(invoice, "brandingThemeId", "BrandingThemeID")
           @@ IfDefined(invoice, "approvedForSending", "ApprovedForSending")
           @@ IfDefined(invoice, "sendCopy", "SendCopy")
           @@ IfDefined(invoice, "markAsSent", "MarkAsSent")
           @@ IfDefined(invoice, "includePdf", "IncludePDF")
           @@ (IF Truthy(Prop(invoice, "schedule")) THEN "Schedule" :> Obj([Period |-> Prop(Prop(invoice, "schedule"), "period"), Unit |-> Prop(Prop(invoice, "schedule"), "unit"), DueDate |-> Prop(Prop(invoice, "schedule"), "dueDate"), DueDateType |-> Prop(Prop(invoice, "schedule"), "dueDateType"), StartDate |-> Prop(Prop(invoice, "schedule"), "startDate"), EndDate |-> Prop(Prop(invoice, "schedule"), "endDate")]) ELSE Empty)
           @@ (IF Truthy(Prop(invoice, "lineItems")) THEN "LineItems" :> MapElements(Prop(invoice, "lineItems"), lineItemsToXero) ELSE Empty))

-----------------------------------------------------------------------------
(* Client operations.  The arguments of a call are a record a:              *)
(*   a.id, a.id2  the identifiers spliced into the path, in signature order  *)
(*   a.input      the remaining argument (a partial entity, a name, a list   *)
(*                of ids), or an object of them when there are several       *)
(*   a.params     the params argument of list and report operations          *)
(* Each operation yields the one request it passes to request() and how it   *)
(* turns the decoded response into its result:                               *)
(*   ret = "first"  return this.mapper(data[key][0])                         *)
(*   ret = "list"   return data[key].map(mapper)                             *)
(*   ret = "paged"  the same wrapped as { items, count, hasMore, page }      *)
(*   ret = "void"   nothing is returned                                      *)
(* bound tells whether the mapper handed to Array.map keeps its `this`.      *)

\* String(v)
RECURSIVE String(_)
String(v) ==
    CASE TypeOf(v) = "string" -> Val(v)
      [] TypeOf(v) = "number" -> ToString(Val(v))
      [] TypeOf(v) = "boolean" -> IF Val(v) THEN "true" ELSE "false"
      [] TypeOf(v) = "array" ->
            IF Val(v) = <<>> THEN ""
            ELSE IF Len(Val(v)) = 1 THEN String(Val(v)[1])
            ELSE String(Val(v)[1]) \o "," \o String(Arr(Tail(Val(v))))
      [] TypeOf(v) = "object" -> "[object Object]"
      [] OTHER -> TypeOf(v)

\* URLSearchParams.set / assignment to a key of a plain object: an existing
\* key keeps its position and takes the new value, a new key goes last
QuerySet(entries, k, v) ==
    IF \E i \in 1..Len(entries) : entries[i][1] = k
    THEN [i \in 1..Len(entries) |-> IF entries[i][1] = k THEN <<k, v>> ELSE entries[i]]
    ELSE Append(entries, <<k, v>>)

\* a run of `if (cond) set(key, value)` statements, given as <<cond, key, value>>
RECURSIVE QueryParams(_)
QueryParams(sets) ==
    IF sets = <<>> THEN <<>>
    ELSE LET last == sets[Len(sets)]
             before == QueryParams(SubSeq(sets, 1, Len(sets) - 1))
         IN IF last[1] THEN QuerySet(before, last[2], last[3]) ELSE before

\* a Record<string, string> with its entries in insertion order
Record(entries) == <<"record", entries>>

\* new URLSearchParams(record)
URLSearchParams(record) == Val(record)

\* lines 312-323
ConnectionOperations(operation, a) ==
    CASE operation = "testConnection" ->   \* 312-323
           [method |-> "GET", path |-> "/Organisation",
             query |-> <<>>,
             body |-> Undefined,
             ret |-> "connection", key |-> "Organisations", mapper |-> "", bound |-> TRUE,
             page |-> Undefined]

\* lines 329-369
OrganisationOperations(operation, a) ==
    CASE operation = "getOrganisation" ->   \* 329-369
           [method |-> "GET", path |-> "/Organisation",
             query |-> <<>>,
             body |-> Undefined,
             ret |-> "organisation", key |-> "Organisations", mapper |-> "", bound |-> TRUE,
             page |-> Undefined]

RECURSIVE ContactsOperations(_, _)
\* lines 375-417
ContactsOperations(operation, a) ==
    CASE operation = "listContacts" ->   \* 375-392
           [method |-> "GET", path |-> "/Contacts",
             query |-> QueryParams(<<<<Truthy(Prop(a.params, "page")), "page", String(Prop(a.params, "page"))>>,
                                       <<Truthy(Prop(a.params, "where")), "where", String(Prop(a.params, "where"))>>,
                                       <<Truthy(Prop(a.params, "order")), "order", String(Prop(a.params, "order"))>>,
                                       <<Truthy(Prop(a.params, "includeArchived")), "includeArchived", "true">>>>),
             body |-> Undefined,
             ret |-> "paged", key |-> "Contacts", mapper |-> "mapContact", bound |-> FALSE,
             page |-> OrElse(Prop(a.params, "page"), Num(1))]
      [] operation = "getContact" ->   \* 394-397
           [method |-> "GET", path |-> "/Contacts/" \o a.id,
             query |-> <<>>,
             body |-> Undefined,
             ret |-> "first", key |-> "Contacts", mapper |-> "mapContact", bound |-> TRUE,
             page |-> Undefined]
      [] operation = "createContact" ->   \* 399-405
           [method |-> "POST", path |-> "/Contacts",
             query |-> <<>>,
             body |-> JSONstringify(Obj([Contacts |-> Arr(<<mapContactToXero(a.input)>>)])),
             ret |-> "first", key |-> "Contacts", mapper |-> "mapContact", bound |-> TRUE,
             page |-> Undefined]
      [] operation = "updateContact" ->   \* 407-413
           [method |-> "POST", path |-> "/Contacts/" \o a.id,
             query |-> <<>>,
             body |-> JSONstringify(Obj([Contacts |-> Arr(<<mapContactToXero(a.input)>>)])),
             ret |-> "first", key |-> "Contacts", mapper |-> "mapContact", bound |-> TRUE,
             page |-> Undefined]
      [] operation = "archiveContact" ->   \* 415-417
           ContactsOperations("updateContact", [a EXCEPT !.input = Obj([contactStatus |-> Str("ARCHIVED")])])

\* lines 475-520
ContactGroupsOperations(operation, a) ==
    CASE operation = "listContactGroups" ->   \* 475-478
           [method |-> "GET", path |-> "/ContactGroups",
             query |-> <<>>,
             body |-> Undefined,
             ret |-> "list", key |-> "ContactGroups", mapper |-> "mapContactGroup", bound |-> FALSE,
             page |-> Undefined]
      [] operation = "getContactGroup" ->   \* 480-483
           [method |-> "GET", path |-> "/ContactGroups/" \o a.id,
             query |-> <<>>,
             body |-> Undefined,
             ret |-> "first", key |-> "ContactGroups", mapper |-> "mapContactGroup", bound |-> TRUE,
             page |-> Undefined]
      [] operation = "createContactGroup" ->   \* 485-491
           [method |-> "PUT", path |-> "/ContactGroups",
             query |-> <<>>,
             body |-> JSONstringify(Obj([ContactGroups |-> Arr(<<Obj([Name |-> a.input])>>)])),
             ret |-> "first", key |-> "ContactGroups", mapper |-> "mapContactGroup", bound |-> TRUE,
             page |-> Undefined]
      [] operation = "updateContactGroup" ->   \* 493-499
           [method |-> "POST", path |-> "/ContactGroups/" \o a.id,
             query |-> <<>>,
             body |-> JSONstringify(Obj([ContactGroups |-> Arr(<<Obj([Name |-> a.input])>>)])),
             ret |-> "first", key |-> "ContactGroups", mapper |-> "mapContactGroup", bound |-> TRUE,
             page |-> Undefined]
      [] operation = "deleteContactGroup" ->   \* 501-506
           [method |-> "POST", path |-> "/ContactGroups/" \o a.id,
             query |-> <<>>,
             body |-> JSONstringify(Obj([ContactGroups |-> Arr(<<Obj([Status |-> Str("DELETED")])>>)])),
             ret |-> "void", key |-> "", mapper |-> "", bound |-> TRUE,
             page |-> Undefined]
      [] operation = "addContactsToGroup" ->   \* 508-514
           [method |-> "PUT", path |-> "/ContactGroups/" \o a.id \o "/Contacts",
             query |-> <<>>,
             body |-> JSONstringify(Obj([Contacts |-> MapElements(a.input, LAMBDA id : Obj([ContactID |-> id]))])),
             ret |-> "first", key |-> "ContactGroups", mapper |-> "mapContactGroup", bound |-> TRUE,
             page |-> Undefined]
      [] operation = "removeContactsFromGroup" ->   \* 516-520
           [method |-> "DELETE", path |-> "/ContactGroups/" \o a.id \o "/Contacts/" \o a.id2,
             query |-> <<>>,
             body |-> Undefined,
             ret |-> "void", key |-> "", mapper |-> "", bound |-> TRUE,
             page |-> Undefined]

RECURSIVE AccountsOperations(_, _)
\* lines 535-573
AccountsOperations(operation, a) ==
    CASE operation = "listAccounts" ->   \* 535-544
           [method |-> "GET", path |-> "/Accounts",
             query |-> QueryParams(<<<<Truthy(Prop(a.params, "where")), "where", String(Prop(a.params, "where"))>>,
                                       <<Truthy(Prop(a.params, "classType")), "where", "Class==\"" \o String(Prop(a.params, "classType")) \o "\"">>>>),
             body |-> Undefined,
             ret |-> "list", key |-> "Accounts", mapper |-> "mapAccount", bound |-> FALSE,
             page |-> Undefined]
      [] operation = "getAccount" ->   \* 546-549
           [method |-> "GET", path |-> "/Accounts/" \o a.id,
             query |-> <<>>,
             body |-> Undefined,
             ret |-> "first", key |-> "Accounts", mapper |-> "mapAccount", bound |-> TRUE,
             page |-> Undefined]
      [] operation = "createAccount" ->   \* 551-557
           [method |-> "PUT", path |-> "/Accounts",
             query |-> <<>>,
             body |-> JSONstringify(mapAccountToXero(a.input)),
             ret |-> "first", key |-> "Accounts", mapper |-> "mapAccount", bound |-> TRUE,
             page |-> Undefined]
      [] operation = "updateAccount" ->   \* 559-565
           [method |-> "POST", path |-> "/Accounts/" \o a.id,
             query |-> <<>>,
             body |-> JSONstringify(mapAccountToXero(a.input)),
             ret |-> "first", key |-> "Accounts", mapper |-> "mapAccount", bound |-> TRUE,
             page |-> Undefined]
      [] operation = "archiveAccount" ->   \* 567-569
           AccountsOperations("updateAccount", [a EXCEPT !.input = Obj([status |-> Str("ARCHIVED")])])
      [] operation = "deleteAccount" ->   \* 571-573
           [method |-> "DELETE", path |-> "/Accounts/" \o a.id,
             query |-> <<>>,
             body |-> Undefined,
             ret |-> "void", key |-> "", mapper |-> "", bound |-> TRUE,
             page |-> Undefined]

\* lines 620-675
InvoicesOperations(operation, a) ==
    CASE operation = "listInvoices" ->   \* 620-637
           [method |-> "GET", path |-> "/Invoices",
             query |-> QueryParams(<<<<Truthy(Prop(a.params, "page")), "page", String(Prop(a.params, "page"))>>,
                                       <<Truthy(Prop(a.params, "where")), "where", String(Prop(a.params, "where"))>>,
                                       <<Truthy(Prop(a.params, "order")), "order", String(Prop(a.params, "order"))>>,
                                       <<Truthy(Prop(a.params, "statuses")), "Statuses", String(Prop(a.params, "statuses"))>>>>),
             body |-> Undefined,
             ret |-> "paged", key |-> "Invoices", mapper |-> "mapInvoice", bound |-> FALSE,
             page |-> OrElse(Prop(a.params, "page"), Num(1))]
      [] operation = "getInvoice" ->   \* 639-642
           [method |-> "GET", path |-> "/Invoices/" \o a.id,
             query |-> <<>>,
             body |-> Undefined,
             ret |-> "first", key |-> "Invoices", mapper |-> "mapInvoice", bound |-> TRUE,
             page |-> Undefined]
      [] operation = "createInvoice" ->   \* 644-650
           [method |-> "POST", path |-> "/Invoices",
             query |-> <<>>,
             body |-> JSONstringify(Obj([Invoices |-> Arr(<<mapInvoiceToXero(a.input)>>)])),
             ret |-> "first", key |-> "Invoices", mapper |-> "mapInvoice", bound |-> TRUE,
             page |-> Undefined]
      [] operation = "updateInvoice" ->   \* 652-660
           [method |-> "POST", path |-> "/Invoices/" \o a.id,
             query |-> <<>>,
             body |-> JSONstringify(Obj([Invoices |-> Arr(<<Obj(("InvoiceID" :> Str(a.id)) @@ Val(mapInvoiceToXero(a.input)))>>)])),
             ret |-> "first", key |-> "Invoices", mapper |-> "mapInvoice", bound |-> TRUE,
             page |-> Undefined]
      [] operation = "voidInvoice" ->   \* 662-668
           [method |-> "POST", path |-> "/Invoices/" \o a.id,
             query |-> <<>>,
             body |-> JSONstringify(Obj([Invoices |-> Arr(<<Obj([InvoiceID |-> Str(a.id), Status |-> Str("VOIDED")])>>)])),
             ret |-> "first", key |-> "Invoices", mapper |-> "mapInvoice", bound |-> TRUE,
             page |-> Undefined]
      [] operation = "deleteInvoice" ->   \* 670-675
           [method |-> "POST", path |-> "/Invoices/" \o a.id,
             query |-> <<>>,
             body |-> JSONstringify(Obj([Invoices |-> Arr(<<Obj([InvoiceID |-> Str(a.id), Status |-> Str("DELETED")])>>)])),
             ret |-> "void", key |-> "", mapper |-> "", bound |-> TRUE,
             page |-> Undefined]

\* lines 762-818
CreditNotesOperations(operation, a) ==
    CASE operation = "listCreditNotes" ->   \* 762-778
           [method |-> "GET", path |-> "/CreditNotes",
             query |-> QueryParams(<<<<Truthy(Prop(a.params, "page")), "page", String(Prop(a.params, "page"))>>,
                                       <<Truthy(Prop(a.params, "where")), "where", String(Prop(a.params, "where"))>>,
                                       <<Truthy(Prop(a.params, "order")), "order", String(Prop(a.params, "order"))>>>>),
             body |-> Undefined,
             ret |-> "paged", key |-> "CreditNotes", mapper |-> "mapCreditNote", bound |-> TRUE,
             page |-> OrElse(Prop(a.params, "page"), Num(1))]
      [] operation = "getCreditNote" ->   \* 780-783
           [method |-> "GET", path |-> "/CreditNotes/" \o a.id,
             query |-> <<>>,
             body |-> Undefined,
             ret |-> "first", key |-> "CreditNotes", mapper |-> "mapCreditNote", bound |-> TRUE,
             page |-> Undefined]
      [] operation = "createCreditNote" ->   \* 785-791
           [method |-> "POST", path |-> "/CreditNotes",
             query |-> <<>>,
             body |-> JSONstringify(Obj([CreditNotes |-> Arr(<<mapCreditNoteToXero(a.input)>>)])),
             ret |-> "first", key |-> "CreditNotes", mapper |-> "mapCreditNote", bound |-> TRUE,
             page |-> Undefined]
      [] operation = "updateCreditNote" ->   \* 793-799
           [method |-> "POST", path |-> "/CreditNotes/" \o a.id,
             query |-> <<>>,
             body |-> JSONstringify(Obj([CreditNotes |-> Arr(<<mapCreditNoteToXero(a.input)>>)])),
             ret |-> "first", key |-> "CreditNotes", mapper |-> "mapCreditNote", bound |-> TRUE,
             page |-> Undefined]
      [] operation = "allocateCreditNote" ->   \* 801-810
           [method |-> "PUT", path |-> "/CreditNotes/" \o a.id \o "/Allocations",
             query |-> <<>>,
             body |-> JSONstringify(Obj([Allocations |-> Arr(<<Obj([Invoice |-> Obj([InvoiceID |-> Prop(a.input, "invoiceId")]), Amount |-> Prop(a.input, "amount")] @@ IfTruthy(a.input, "date", "Date"))>>)])),
             ret |-> "first", key |-> "CreditNotes", mapper |-> "mapCreditNote", bound |-> TRUE,
             page |-> Undefined]
      [] operation = "voidCreditNote" ->   \* 812-818
           [method |-> "POST", path |-> "/CreditNotes/" \o a.id,
             query |-> <<>>,
             body |-> JSONstringify(Obj([CreditNotes |-> Arr(<<Obj([Status |-> Str("VOIDED")])>>)])),
             ret |-> "first", key |-> "CreditNotes", mapper |-> "mapCreditNote", bound |-> TRUE,
             page |-> Undefined]

\* lines 872-908
PaymentsOperations(operation, a) ==
    CASE operation = "listPayments" ->   \* 872-888
           [method |-> "GET", path |-> "/Payments",
             query |-> QueryParams(<<<<Truthy(Prop(a.params, "page")), "page", String(Prop(a.params, "page"))>>,
                                       <<Truthy(Prop(a.params, "where")), "where", String(Prop(a.params, "where"))>>,
                                       <<Truthy(Prop(a.params, "order")), "order", String(Prop(a.params, "order"))>>>>),
             body |-> Undefined,
             ret |-> "paged", key |-> "Payments", mapper |-> "mapPayment", bound |-> FALSE,
             page |-> OrElse(Prop(a.params, "page"), Num(1))]
      [] operation = "getPayment" ->   \* 890-893
           [method |-> "GET", path |-> "/Payments/" \o a.id,
             query |-> <<>>,
             body |-> Undefined,
             ret |-> "first", key |-> "Payments", mapper |-> "mapPayment", bound |-> TRUE,
             page |-> Undefined]
      [] operation = "createPayment" ->   \* 895-901
           [method |-> "PUT", path |-> "/Payments",
             query |-> <<>>,
             body |-> JSONstringify(Obj([Payments |-> Arr(<<mapPaymentToXero(a.input)>>)])),
             ret |-> "first", key |-> "Payments", mapper |-> "mapPayment", bound |-> TRUE,
             page |-> Undefined]
      [] operation = "deletePayment" ->   \* 903-908
           [method |-> "POST", path |-> "/Payments/" \o a.id,
             query |-> <<>>,
             body |-> JSONstringify(Obj([Payments |-> Arr(<<Obj([Status |-> Str("DELETED")])>>)])),
             ret |-> "void", key |-> "", mapper |-> "", bound |-> TRUE,
             page |-> Undefined]

\* lines 943-982
BankTransactionsOperations(operation, a) ==
    CASE operation = "listBankTransactions" ->   \* 943-959
           [method |-> "GET", path |-> "/BankTransactions",
             query |-> QueryParams(<<<<Truthy(Prop(a.params, "page")), "page", String(Prop(a.params, "page"))>>,
                                       <<Truthy(Prop(a.params, "where")), "where", String(Prop(a.params, "where"))>>,
                                       <<Truthy(Prop(a.params, "order")), "order", String(Prop(a.params, "order"))>>>>),
             body |-> Undefined,
             ret |-> "paged", key |-> "BankTransactions", mapper |-> "mapBankTransaction", bound |-> TRUE,
             page |-> OrElse(Prop(a.params, "page"), Num(1))]
      [] operation = "getBankTransaction" ->   \* 961-964
           [method |-> "GET", path |-> "/BankTransactions/" \o a.id,
             query |-> <<>>,
             body |-> Undefined,
             ret |-> "first", key |-> "BankTransactions", mapper |-> "mapBankTransaction", bound |-> TRUE,
             page |-> Undefined]
      [] operation = "createBankTransaction" ->   \* 966-972
           [method |-> "POST", path |-> "/BankTransactions",
             query |-> <<>>,
             body |-> JSONstringify(Obj([BankTransactions |-> Arr(<<mapBankTransactionToXero(a.input)>>)])),
             ret |-> "first", key |-> "BankTransactions", mapper |-> "mapBankTransaction", bound |-> TRUE,
             page |-> Undefined]
      [] operation = "updateBankTransaction" ->   \* 974-982
           [method |-> "POST", path |-> "/BankTransactions/" \o a.id,
             query |-> <<>>,
             body |-> JSONstringify(Obj([BankTransactions |-> Arr(<<Obj(("BankTransactionID" :> Str(a.id)) @@ Val(mapBankTransactionToXero(a.input)))>>)])),
             ret |-> "first", key |-> "BankTransactions", mapper |-> "mapBankTransaction", bound |-> TRUE,
             page |-> Undefined]

\* lines 1036-1072
BankTransfersOperations(operation, a) ==
    CASE operation = "listBankTransfers" ->   \* 1036-1052
           [method |-> "GET", path |-> "/BankTransfers",
             query |-> QueryParams(<<<<Truthy(Prop(a.params, "page")), "page", String(Prop(a.params, "page"))>>,
                                       <<Truthy(Prop(a.params, "where")), "where", String(Prop(a.params, "where"))>>,
                                       <<Truthy(Prop(a.params, "order")), "order", String(Prop(a.params, "order"))>>>>),
             body |-> Undefined,
             ret |-> "paged", key |-> "BankTransfers", mapper |-> "mapBankTransfer", bound |-> FALSE,
             page |-> OrElse(Prop(a.params, "page"), Num(1))]
      [] operation = "getBankTransfer" ->   \* 1054-1057
           [method |-> "GET", path |-> "/BankTransfers/" \o a.id,
             query |-> <<>>,
             body |-> Undefined,
             ret |-> "first", key |-> "BankTransfers", mapper |-> "mapBankTransfer", bound |-> TRUE,
             page |-> Undefined]
      [] operation = "createBankTransfer" ->   \* 1059-1072
           [method |-> "PUT", path |-> "/BankTransfers",
             query |-> <<>>,
             body |-> JSONstringify(Obj([BankTransfers |-> Arr(<<Obj([FromBankAccount |-> Obj([AccountID |-> Prop(Prop(a.input, "fromBankAccount"), "accountId")]), ToBankAccount |-> Obj([AccountID |-> Prop(Prop(a.input, "toBankAccount"), "accountId")]), Amount |-> Prop(a.input, "amount"), Date |-> Prop(a.input, "date")])>>)])),
             ret |-> "first", key |-> "BankTransfers", mapper |-> "mapBankTransfer", bound |-> TRUE,
             page |-> Undefined]

\* lines 1103-1136
ItemsOperations(operation, a) ==
    CASE operation = "listItems" ->   \* 1103-1111
           [method |-> "GET", path |-> "/Items",
             query |-> QueryParams(<<<<Truthy(Prop(a.params, "where")), "where", String(Prop(a.params, "where"))>>>>),
             body |-> Undefined,
             ret |-> "list", key |-> "Items", mapper |-> "mapItem", bound |-> FALSE,
             page |-> Undefined]
      [] operation = "getItem" ->   \* 1113-1116
           [method |-> "GET", path |-> "/Items/" \o a.id,
             query |-> <<>>,
             body |-> Undefined,
             ret |-> "first", key |-> "Items", mapper |-> "mapItem", bound |-> TRUE,
             page |-> Undefined]
      [] operation = "createItem" ->   \* 1118-1124
           [method |-> "POST", path |-> "/Items",
             query |-> <<>>,
             body |-> JSONstringify(Obj([Items |-> Arr(<<mapItemToXero(a.input)>>)])),
             ret |-> "first", key |-> "Items", mapper |-> "mapItem", bound |-> TRUE,
             page |-> Undefined]
      [] operation = "updateItem" ->   \* 1126-1132
           [method |-> "POST", path |-> "/Items/" \o a.id,
             query |-> <<>>,
             body |-> JSONstringify(Obj([Items |-> Arr(<<mapItemToXero(a.input)>>)])),
             ret |-> "first", key |-> "Items", mapper |-> "mapItem", bound |-> TRUE,
             page |-> Undefined]
      [] operation = "deleteItem" ->   \* 1134-1136
           [method |-> "DELETE", path |-> "/Items/" \o a.id,
             query |-> <<>>,
             body |-> Undefined,
             ret |-> "void", key |-> "", mapper |-> "", bound |-> TRUE,
             page |-> Undefined]

\* lines 1200-1245
PurchaseOrdersOperations(operation, a) ==
    CASE operation = "listPurchaseOrders" ->   \* 1200-1217
           [method |-> "GET", path |-> "/PurchaseOrders",
             query |-> QueryParams(<<<<Truthy(Prop(a.params, "page")), "page", String(Prop(a.params, "page"))>>,
                                       <<Truthy(Prop(a.params, "where")), "where", String(Prop(a.params, "where"))>>,
                                       <<Truthy(Prop(a.params, "order")), "order", String(Prop(a.params, "order"))>>,
                                       <<Truthy(Prop(a.params, "status")), "Status", String(Prop(a.params, "status"))>>>>),
             body |-> Undefined,
             ret |-> "paged", key |-> "PurchaseOrders", mapper |-> "mapPurchaseOrder", bound |-> TRUE,
             page |-> OrElse(Prop(a.params, "page"), Num(1))]
      [] operation = "getPurchaseOrder" ->   \* 1219-1222
           [method |-> "GET", path |-> "/PurchaseOrders/" \o a.id,
             query |-> <<>>,
             body |-> Undefined,
             ret |-> "first", key |-> "PurchaseOrders", mapper |-> "mapPurchaseOrder", bound |-> TRUE,
             page |-> Undefined]
      [] operation = "createPurchaseOrder" ->   \* 1224-1230
           [method |-> "POST", path |-> "/PurchaseOrders",
             query |-> <<>>,
             body |-> JSONstringify(Obj([PurchaseOrders |-> Arr(<<mapPurchaseOrderToXero(a.input)>>)])),
             ret |-> "first", key |-> "PurchaseOrders", mapper |-> "mapPurchaseOrder", bound |-> TRUE,
             page |-> Undefined]
      [] operation = "updatePurchaseOrder" ->   \* 1232-1238
           [method |-> "POST", path |-> "/PurchaseOrders/" \o a.id,
             query |-> <<>>,
             body |-> JSONstringify(Obj([PurchaseOrders |-> Arr(<<mapPurchaseOrderToXero(a.input)>>)])),
             ret |-> "first", key |-> "PurchaseOrders", mapper |-> "mapPurchaseOrder", bound |-> TRUE,
             page |-> Undefined]
      [] operation = "deletePurchaseOrder" ->   \* 1240-1245
           [method |-> "POST", path |-> "/PurchaseOrders/" \o a.id,
             query |-> <<>>,
             body |-> JSONstringify(Obj([PurchaseOrders |-> Arr(<<Obj([Status |-> Str("DELETED")])>>)])),
             ret |-> "void", key |-> "", mapper |-> "", bound |-> TRUE,
             page |-> Undefined]

\* lines 1306-1351
QuotesOperations(operation, a) ==
    CASE operation = "listQuotes" ->   \* 1306-1323
           [method |-> "GET", path |-> "/Quotes",
             query |-> QueryParams(<<<<Truthy(Prop(a.params, "page")), "page", String(Prop(a.params, "page"))>>,
                                       <<Truthy(Prop(a.params, "where")), "where", String(Prop(a.params, "where"))>>,
                                       <<Truthy(Prop(a.params, "order")), "order", String(Prop(a.params, "order"))>>,
                                       <<Truthy(Prop(a.params, "status")), "Status", String(Prop(a.params, "status"))>>>>),
             body |-> Undefined,
             ret |-> "paged", key |-> "Quotes", mapper |-> "mapQuote", bound |-> TRUE,
             page |-> OrElse(Prop(a.params, "page"), Num(1))]
      [] operation = "getQuote" ->   \* 1325-1328
           [method |-> "GET", path |-> "/Quotes/" \o a.id,
             query |-> <<>>,
             body |-> Undefined,
             ret |-> "first", key |-> "Quotes", mapper |-> "mapQuote", bound |-> TRUE,
             page |-> Undefined]
      [] operation = "createQuote" ->   \* 1330-1336
           [method |-> "POST", path |-> "/Quotes",
             query |-> <<>>,
             body |-> JSONstringify(Obj([Quotes |-> Arr(<<mapQuoteToXero(a.input)>>)])),
             ret |-> "first", key |-> "Quotes", mapper |-> "mapQuote", bound |-> TRUE,
             page |-> Undefined]
      [] operation = "updateQuote" ->   \* 1338-1344
           [method |-> "POST", path |-> "/Quotes/" \o a.id,
             query |-> <<>>,
             body |-> JSONstringify(Obj([Quotes |-> Arr(<<mapQuoteToXero(a.input)>>)])),
             ret |-> "first", key |-> "Quotes", mapper |-> "mapQuote", bound |-> TRUE,
             page |-> Undefined]
      [] operation = "deleteQuote" ->   \* 1346-1351
           [method |-> "POST", path |-> "/Quotes/" \o a.id,
             query |-> <<>>,
             body |-> JSONstringify(Obj([Quotes |-> Arr(<<Obj([Status |-> Str("DELETED")])>>)])),
             ret |-> "void", key |-> "", mapper |-> "", bound |-> TRUE,
             page |-> Undefined]

\* the prepayment operations with a list that reports page 1 whatever was asked
PrepaymentsOperationsFirstPage(operation, a) ==
    CASE operation = "listPrepayments" ->   \* 1411-1427
           [method |-> "GET", path |-> "/Prepayments",
             query |-> QueryParams(<<<<Truthy(Prop(a.params, "page")), "page", String(Prop(a.params, "page"))>>,
                                       <<Truthy(Prop(a.params, "where")), "where", String(Prop(a.params, "where"))>>,
                                       <<Truthy(Prop(a.params, "order")), "order", String(Prop(a.params, "order"))>>>>),
             body |-> Undefined,
             ret |-> "paged", key |-> "Prepayments", mapper |-> "mapPrepayment", bound |-> TRUE,
             page |-> Num(1)]
      [] operation = "getPrepayment" ->   \* 1429-1432
           [method |-> "GET", path |-> "/Prepayments/" \o a.id,
             query |-> <<>>,
             body |-> Undefined,
             ret |-> "first", key |-> "Prepayments", mapper |-> "mapPrepayment", bound |-> TRUE,
             page |-> Undefined]
      [] operation = "allocatePrepayment" ->   \* 1434-1443
           [method |-> "PUT", path |-> "/Prepayments/" \o a.id \o "/Allocations",
             query |-> <<>>,
             body |-> JSONstringify(Obj([Allocations |-> Arr(<<Obj([Invoice |-> Obj([InvoiceID |-> Prop(a.input, "invoiceId")]), Amount |-> Prop(a.input, "amount")] @@ IfTruthy(a.input, "date", "Date"))>>)])),
             ret |-> "first", key |-> "Prepayments", mapper |-> "mapPrepayment", bound |-> TRUE,
             page |-> Undefined]

\* lines 1411-1443
PrepaymentsOperations(operation, a) ==
    CASE operation = "listPrepayments" ->   \* 1411-1427
           [method |-> "GET", path |-> "/Prepayments",
             query |-> QueryParams(<<<<Truthy(Prop(a.params, "page")), "page", String(Prop(a.params, "page"))>>,
                                       <<Truthy(Prop(a.params, "where")), "where", String(Prop(a.params, "where"))>>,
                                       <<Truthy(Prop(a.params, "order")), "order", String(Prop(a.params, "order"))>>>>),
             body |-> Undefined,
             ret |-> "paged", key |-> "Prepayments", mapper |-> "mapPrepayment", bound |-> TRUE,
             page |-> OrElse(Prop(a.params, "page"), Num(1))]
      [] operation = "getPrepayment" ->   \* 1429-1432
           [method |-> "GET", path |-> "/Prepayments/" \o a.id,
             query |-> <<>>,
             body |-> Undefined,
             ret |-> "first", key |-> "Prepayments", mapper |-> "mapPrepayment", bound |-> TRUE,
             page |-> Undefined]
      [] operation = "allocatePrepayment" ->   \* 1434-1443
           [method |-> "PUT", path |-> "/Prepayments/" \o a.id \o "/Allocations",
             query |-> <<>>,
             body |-> JSONstringify(Obj([Allocations |-> Arr(<<Obj([Invoice |-> Obj([InvoiceID |-> Prop(a.input, "invoiceId")]), Amount |-> Prop(a.input, "amount")] @@ IfTruthy(a.input, "date", "Date"))>>)])),
             ret |-> "first", key |-> "Prepayments", mapper |-> "mapPrepayment", bound |-> TRUE,
             page |-> Undefined]

\* lines 1470-1502
OverpaymentsOperations(operation, a) ==
    CASE operation = "listOverpayments" ->   \* 1470-1486
           [method |-> "GET", path |-> "/Overpayments",
             query |-> QueryParams(<<<<Truthy(Prop(a.params, "page")), "page", String(Prop(a.params, "page"))>>,
                                       <<Truthy(Prop(a.params, "where")), "where", String(Prop(a.params, "where"))>>,
                                       <<Truthy(Prop(a.params, "order")), "order", String(Prop(a.params, "order"))>>>>),
             body |-> Undefined,
             ret |-> "paged", key |-> "Overpayments", mapper |-> "mapOverpayment", bound |-> TRUE,
             page |-> OrElse(Prop(a.params, "page"), Num(1))]
      [] operation = "getOverpayment" ->   \* 1488-1491
           [method |-> "GET", path |-> "/Overpayments/" \o a.id,
             query |-> <<>>,
             body |-> Undefined,
             ret |-> "first", key |-> "Overpayments", mapper |-> "mapOverpayment", bound |-> TRUE,
             page |-> Undefined]
      [] operation = "allocateOverpayment" ->   \* 1493-1502
           [method |-> "PUT", path |-> "/Overpayments/" \o a.id \o "/Allocations",
             query |-> <<>>,
             body |-> JSONstringify(Obj([Allocations |-> Arr(<<Obj([Invoice |-> Obj([InvoiceID |-> Prop(a.input, "invoiceId")]), Amount |-> Prop(a.input, "amount")] @@ IfTruthy(a.input, "date", "Date"))>>)])),
             ret |-> "first", key |-> "Overpayments", mapper |-> "mapOverpayment", bound |-> TRUE,
             page |-> Undefined]

\* lines 1529-1544
JournalsOperations(operation, a) ==
    CASE operation = "listJournals" ->   \* 1529-1539
           [method |-> "GET", path |-> "/Journals",
             query |-> QueryParams(<<<<Truthy(Prop(a.params, "offset")), "offset", String(Prop(a.params, "offset"))>>,
                                       <<Truthy(Prop(a.params, "where")), "where", String(Prop(a.params, "where"))>>,
                                       <<Truthy(Prop(a.params, "order")), "order", String(Prop(a.params, "order"))>>>>),
             body |-> Undefined,
             ret |-> "list", key |-> "Journals", mapper |-> "mapJournal", bound |-> FALSE,
             page |-> Undefined]
      [] operation = "getJournal" ->   \* 1541-1544
           [method |-> "GET", path |-> "/Journals/" \o a.id,
             query |-> <<>>,
             body |-> Undefined,
             ret |-> "first", key |-> "Journals", mapper |-> "mapJournal", bound |-> TRUE,
             page |-> Undefined]

\* lines 1575-1612
ManualJournalsOperations(operation, a) ==
    CASE operation = "listManualJournals" ->   \* 1575-1591
           [method |-> "GET", path |-> "/ManualJournals",
             query |-> QueryParams(<<<<Truthy(Prop(a.params, "page")), "page", String(Prop(a.params, "page"))>>,
                                       <<Truthy(Prop(a.params, "where")), "where", String(Prop(a.params, "where"))>>,
                                       <<Truthy(Prop(a.params, "order")), "order", String(Prop(a.params, "order"))>>>>),
             body |-> Undefined,
             ret |-> "paged", key |-> "ManualJournals", mapper |-> "mapManualJournal", bound |-> FALSE,
             page |-> OrElse(Prop(a.params, "page"), Num(1))]
      [] operation = "getManualJournal" ->   \* 1593-1596
           [method |-> "GET", path |-> "/ManualJournals/" \o a.id,
             query |-> <<>>,
             body |-> Undefined,
             ret |-> "first", key |-> "ManualJournals", mapper |-> "mapManualJournal", bound |-> TRUE,
             page |-> Undefined]
      [] operation = "createManualJournal" ->   \* 1598-1604
           [method |-> "POST", path |-> "/ManualJournals",
             query |-> <<>>,
             body |-> JSONstringify(Obj([ManualJournals |-> Arr(<<mapManualJournalToXero(a.input)>>)])),
             ret |-> "first", key |-> "ManualJournals", mapper |-> "mapManualJournal", bound |-> TRUE,
             page |-> Undefined]
      [] operation = "updateManualJournal" ->   \* 1606-1612
           [method |-> "POST", path |-> "/ManualJournals/" \o a.id,
             query |-> <<>>,
             body |-> JSONstringify(Obj([ManualJournals |-> Arr(<<mapManualJournalToXero(a.input)>>)])),
             ret |-> "first", key |-> "ManualJournals", mapper |-> "mapManualJournal", bound |-> TRUE,
             page |-> Undefined]

\* the batch payment operations with deleteBatchPayment as a true HTTP deletion
BatchPaymentsOperationsHardDelete(operation, a) ==
    CASE operation = "listBatchPayments" ->   \* 1658-1674
           [method |-> "GET", path |-> "/BatchPayments",
             query |-> QueryParams(<<<<Truthy(Prop(a.params, "page")), "page", String(Prop(a.params, "page"))>>,
                                       <<Truthy(Prop(a.params, "where")), "where", String(Prop(a.params, "where"))>>,
                                       <<Truthy(Prop(a.params, "order")), "order", String(Prop(a.params, "order"))>>>>),
             body |-> Undefined,
             ret |-> "paged", key |-> "BatchPayments", mapper |-> "mapBatchPayment", bound |-> FALSE,
             page |-> OrElse(Prop(a.params, "page"), Num(1))]
      [] operation = "getBatchPayment" ->   \* 1676-1679
           [method |-> "GET", path |-> "/BatchPayments/" \o a.id,
             query |-> <<>>,
             body |-> Undefined,
             ret |-> "first", key |-> "BatchPayments", mapper |-> "mapBatchPayment", bound |-> TRUE,
             page |-> Undefined]
      [] operation = "createBatchPayment" ->   \* 1681-1687
           [method |-> "PUT", path |-> "/BatchPayments",
             query |-> <<>>,
             body |-> JSONstringify(Obj([BatchPayments |-> Arr(<<mapBatchPaymentToXero(a.input)>>)])),
             ret |-> "first", key |-> "BatchPayments", mapper |-> "mapBatchPayment", bound |-> TRUE,
             page |-> Undefined]
      [] operation = "deleteBatchPayment" ->   \* 1689-1694
           [method |-> "DELETE", path |-> "/BatchPayments/" \o a.id,
             query |-> <<>>,
             body |-> Undefined,
             ret |-> "void", key |-> "", mapper |-> "", bound |-> TRUE,
             page |-> Undefined]

\* lines 1658-1694
BatchPaymentsOperations(operation, a) ==
    CASE operation = "listBatchPayments" ->   \* 1658-1674
           [method |-> "GET", path |-> "/BatchPayments",
             query |-> QueryParams(<<<<Truthy(Prop(a.params, "page")), "page", String(Prop(a.params, "page"))>>,
                                       <<Truthy(Prop(a.params, "where")), "where", String(Prop(a.params, "where"))>>,
                                       <<Truthy(Prop(a.params, "order")), "order", String(Prop(a.params, "order"))>>>>),
             body |-> Undefined,
             ret |-> "paged", key |-> "BatchPayments", mapper |-> "mapBatchPayment", bound |-> FALSE,
             page |-> OrElse(Prop(a.params, "page"), Num(1))]
      [] operation = "getBatchPayment" ->   \* 1676-1679
           [method |-> "GET", path |-> "/BatchPayments/" \o a.id,
             query |-> <<>>,
             body |-> Undefined,
             ret |-> "first", key |-> "BatchPayments", mapper |-> "mapBatchPayment", bound |-> TRUE,
             page |-> Undefined]
      [] operation = "createBatchPayment" ->   \* 1681-1687
           [method |-> "PUT", path |-> "/BatchPayments",
             query |-> <<>>,
             body |-> JSONstringify(Obj([BatchPayments |-> Arr(<<mapBatchPaymentToXero(a.input)>>)])),
             ret |-> "first", key |-> "BatchPayments", mapper |-> "mapBatchPayment", bound |-> TRUE,
             page |-> Undefined]
      [] operation = "deleteBatchPayment" ->   \* 1689-1694
           [method |-> "POST", path |-> "/BatchPayments/" \o a.id,
             query |-> <<>>,
             body |-> JSONstringify(Obj([BatchPayments |-> Arr(<<Obj([Status |-> Str("DELETED")])>>)])),
             ret |-> "void", key |-> "", mapper |-> "", bound |-> TRUE,
             page |-> Undefined]

\* lines 1736-1760
TaxRatesOperations(operation, a) ==
    CASE operation = "listTaxRates" ->   \* 1736-1739
           [method |-> "GET", path |-> "/TaxRates",
             query |-> <<>>,
             body |-> Undefined,
             ret |-> "list", key |-> "TaxRates", mapper |-> "mapTaxRate", bound |-> FALSE,
             page |-> Undefined]
      [] operation = "getTaxRate" ->   \* 1741-1744
           [method |-> "GET", path |-> "/TaxRates?where=TaxType==\"" \o a.id \o "\"",
             query |-> <<>>,
             body |-> Undefined,
             ret |-> "first", key |-> "TaxRates", mapper |-> "mapTaxRate", bound |-> TRUE,
             page |-> Undefined]
      [] operation = "createTaxRate" ->   \* 1746-1752
           [method |-> "POST", path |-> "/TaxRates",
             query |-> <<>>,
             body |-> JSONstringify(Obj([TaxRates |-> Arr(<<mapTaxRateToXero(a.input)>>)])),
             ret |-> "first", key |-> "TaxRates", mapper |-> "mapTaxRate", bound |-> TRUE,
             page |-> Undefined]
      [] operation = "updateTaxRate" ->   \* 1754-1760
           [method |-> "POST", path |-> "/TaxRates",
             query |-> <<>>,
             body |-> JSONstringify(Obj([TaxRates |-> Arr(<<mapTaxRateToXero(a.input)>>)])),
             ret |-> "first", key |-> "TaxRates", mapper |-> "mapTaxRate", bound |-> TRUE,
             page |-> Undefined]

\* lines 1805-1820
CurrenciesOperations(operation, a) ==
    CASE operation = "listCurrencies" ->   \* 1805-1811
           [method |-> "GET", path |-> "/Currencies",
             query |-> <<>>,
             body |-> Undefined,
             ret |-> "list", key |-> "Currencies", mapper |-> "currency", bound |-> TRUE,
             page |-> Undefined]
      [] operation = "createCurrency" ->   \* 1813-1820
           [method |-> "PUT", path |-> "/Currencies",
             query |-> <<>>,
             body |-> JSONstringify(Obj([Code |-> Prop(a.input, "code"), Description |-> Prop(a.input, "description")])),
             ret |-> "first", key |-> "Currencies", mapper |-> "currency", bound |-> TRUE,
             page |-> Undefined]

\* lines 1826-1874
TrackingCategoriesOperations(operation, a) ==
    CASE operation = "listTrackingCategories" ->   \* 1826-1829
           [method |-> "GET", path |-> "/TrackingCategories",
             query |-> <<>>,
             body |-> Undefined,
             ret |-> "list", key |-> "TrackingCategories", mapper |-> "mapTrackingCategory", bound |-> FALSE,
             page |-> Undefined]
      [] operation = "getTrackingCategory" ->   \* 1831-1834
           [method |-> "GET", path |-> "/TrackingCategories/" \o a.id,
             query |-> <<>>,
             body |-> Undefined,
             ret |-> "first", key |-> "TrackingCategories", mapper |-> "mapTrackingCategory", bound |-> TRUE,
             page |-> Undefined]
      [] operation = "createTrackingCategory" ->   \* 1836-1842
           [method |-> "PUT", path |-> "/TrackingCategories",
             query |-> <<>>,
             body |-> JSONstringify(Obj([Name |-> a.input])),
             ret |-> "first", key |-> "TrackingCategories", mapper |-> "mapTrackingCategory", bound |-> TRUE,
             page |-> Undefined]
      [] operation = "updateTrackingCategory" ->   \* 1844-1850
           [method |-> "POST", path |-> "/TrackingCategories/" \o a.id,
             query |-> <<>>,
             body |-> JSONstringify(Obj([Name |-> a.input])),
             ret |-> "first", key |-> "TrackingCategories", mapper |-> "mapTrackingCategory", bound |-> TRUE,
             page |-> Undefined]
      [] operation = "deleteTrackingCategory" ->   \* 1852-1854
           [method |-> "DELETE", path |-> "/TrackingCategories/" \o a.id,
             query |-> <<>>,
             body |-> Undefined,
             ret |-> "void", key |-> "", mapper |-> "", bound |-> TRUE,
             page |-> Undefined]
      [] operation = "createTrackingOption" ->   \* 1856-1862
           [method |-> "PUT", path |-> "/TrackingCategories/" \o a.id \o "/Options",
             query |-> <<>>,
             body |-> JSONstringify(Obj([Name |-> a.input])),
             ret |-> "first", key |-> "TrackingCategories", mapper |-> "mapTrackingCategory", bound |-> TRUE,
             page |-> Undefined]
      [] operation = "updateTrackingOption" ->   \* 1864-1870
           [method |-> "POST", path |-> "/TrackingCategories/" \o a.id \o "/Options/" \o a.id2,
             query |-> <<>>,
             body |-> JSONstringify(Obj([Name |-> a.input])),
             ret |-> "first", key |-> "TrackingCategories", mapper |-> "mapTrackingCategory", bound |-> TRUE,
             page |-> Undefined]
      [] operation = "deleteTrackingOption" ->   \* 1872-1874
           [method |-> "DELETE", path |-> "/TrackingCategories/" \o a.id \o "/Options/" \o a.id2,
             query |-> <<>>,
             body |-> Undefined,
             ret |-> "void", key |-> "", mapper |-> "", bound |-> TRUE,
             page |-> Undefined]

\* lines 1893-1901
BrandingThemesOperations(operation, a) ==
    CASE operation = "listBrandingThemes" ->   \* 1893-1896
           [method |-> "GET", path |-> "/BrandingThemes",
             query |-> <<>>,
             body |-> Undefined,
             ret |-> "list", key |-> "BrandingThemes", mapper |-> "mapBrandingTheme", bound |-> FALSE,
             page |-> Undefined]
      [] operation = "getBrandingTheme" ->   \* 1898-1901
           [method |-> "GET", path |-> "/BrandingThemes/" \o a.id,
             query |-> <<>>,
             body |-> Undefined,
             ret |-> "first", key |-> "BrandingThemes", mapper |-> "mapBrandingTheme", bound |-> TRUE,
             page |-> Undefined]

\* the repeating invoice operations with a deletion that also blanks the reference
RepeatingInvoicesOperationsWithReference(operation, a) ==
    CASE operation = "listRepeatingInvoices" ->   \* 1918-1921
           [method |-> "GET", path |-> "/RepeatingInvoices",
             query |-> <<>>,
             body |-> Undefined,
             ret |-> "list", key |-> "RepeatingInvoices", mapper |-> "mapRepeatingInvoice", bound |-> TRUE,
             page |-> Undefined]
      [] operation = "getRepeatingInvoice" ->   \* 1923-1926
           [method |-> "GET", path |-> "/RepeatingInvoices/" \o a.id,
             query |-> <<>>,
             body |-> Undefined,
             ret |-> "first", key |-> "RepeatingInvoices", mapper |-> "mapRepeatingInvoice", bound |-> TRUE,
             page |-> Undefined]
      [] operation = "createRepeatingInvoice" ->   \* 1928-1934
           [method |-> "POST", path |-> "/RepeatingInvoices",
             query |-> <<>>,
             body |-> JSONstringify(Obj([RepeatingInvoices |-> Arr(<<mapRepeatingInvoiceToXero(a.input)>>)])),
             ret |-> "first", key |-> "RepeatingInvoices", mapper |-> "mapRepeatingInvoice", bound |-> TRUE,
             page |-> Undefined]
      [] operation = "updateRepeatingInvoice" ->   \* 1936-1942
           [method |-> "POST", path |-> "/RepeatingInvoices/" \o a.id,
             query |-> <<>>,
             body |-> JSONstringify(Obj([RepeatingInvoices |-> Arr(<<mapRepeatingInvoiceToXero(a.input)>>)])),
             ret |-> "first", key |-> "RepeatingInvoices", mapper |-> "mapRepeatingInvoice", bound |-> TRUE,
             page |-> Undefined]
      [] operation = "deleteRepeatingInvoice" ->   \* 1944-1949
           [method |-> "POST", path |-> "/RepeatingInvoices/" \o a.id,
             query |-> <<>>,
             body |-> JSONstringify(Obj([RepeatingInvoices |-> Arr(<<Obj([Status |-> Str("DELETED"), Reference |-> Str("")])>>)])),
             ret |-> "void", key |-> "", mapper |-> "", bound |-> TRUE,
             page |-> Undefined]

\* lines 1918-1949
RepeatingInvoicesOperations(operation, a) ==
    CASE operation = "listRepeatingInvoices" ->   \* 1918-1921
           [method |-> "GET", path |-> "/RepeatingInvoices",
             query |-> <<>>,
             body |-> Undefined,
             ret |-> "list", key |-> "RepeatingInvoices", mapper |-> "mapRepeatingInvoice", bound |-> TRUE,
             page |-> Undefined]
      [] operation = "getRepeatingInvoice" ->   \* 1923-1926
           [method |-> "GET", path |-> "/RepeatingInvoices/" \o a.id,
             query |-> <<>>,
             body |-> Undefined,
             ret |-> "first", key |-> "RepeatingInvoices", mapper |-> "mapRepeatingInvoice", bound |-> TRUE,
             page |-> Undefined]
      [] operation = "createRepeatingInvoice" ->   \* 1928-1934
           [method |-> "POST", path |-> "/RepeatingInvoices",
             query |-> <<>>,
             body |-> JSONstringify(Obj([RepeatingInvoices |-> Arr(<<mapRepeatingInvoiceToXero(a.input)>>)])),
             ret |-> "first", key |-> "RepeatingInvoices", mapper |-> "mapRepeatingInvoice", bound |-> TRUE,
             page |-> Undefined]
      [] operation = "updateRepeatingInvoice" ->   \* 1936-1942
           [method |-> "POST", path |-> "/RepeatingInvoices/" \o a.id,
             query |-> <<>>,
             body |-> JSONstringify(Obj([RepeatingInvoices |-> Arr(<<mapRepeatingInvoiceToXero(a.input)>>)])),
             ret |-> "first", key |-> "RepeatingInvoices", mapper |-> "mapRepeatingInvoice", bound |-> TRUE,
             page |-> Undefined]
      [] operation = "deleteRepeatingInvoice" ->   \* 1944-1949
           [method |-> "POST", path |-> "/RepeatingInvoices/" \o a.id,
             query |-> <<>>,
             body |-> JSONstringify(Obj([RepeatingInvoices |-> Arr(<<Obj([Status |-> Str("DELETED")])>>)])),
             ret |-> "void", key |-> "", mapper |-> "", bound |-> TRUE,
             page |-> Undefined]

\* lines 2027-2035
UsersOperations(operation, a) ==
    CASE operation = "listUsers" ->   \* 2027-2030
           [method |-> "GET", path |-> "/Users",
             query |-> <<>>,
             body |-> Undefined,
             ret |-> "list", key |-> "Users", mapper |-> "mapUser", bound |-> FALSE,
             page |-> Undefined]
      [] operation = "getUser" ->   \* 2032-2035
           [method |-> "GET", path |-> "/Users/" \o a.id,
             query |-> <<>>,
             body |-> Undefined,
             ret |-> "first", key |-> "Users", mapper |-> "mapUser", bound |-> TRUE,
             page |-> Undefined]

\* x ?? null
OrNull(v) == IF v = Undefined THEN Null ELSE v

\* the linked-transaction operations with an update body that sends null for
\* every field the caller left undefined
LinkedTransactionsOperationsNulling(operation, a) ==
    CASE operation = "listLinkedTransactions" ->   \* 2053-2070
           [method |-> "GET", path |-> "/LinkedTransactions",
             query |-> QueryParams(<<<<Truthy(Prop(a.params, "page")), "page", String(Prop(a.params, "page"))>>,
                                       <<Truthy(Prop(a.params, "where")), "where", String(Prop(a.params, "where"))>>,
                                       <<Truthy(Prop(a.params, "sourceTransactionId")), "SourceTransactionID", String(Prop(a.params, "sourceTransactionId"))>>,
                                       <<Truthy(Prop(a.params, "contactId")), "ContactID", String(Prop(a.params, "contactId"))>>>>),
             body |-> Undefined,
             ret |-> "paged", key |-> "LinkedTransactions", mapper |-> "mapLinkedTransaction", bound |-> FALSE,
             page |-> OrElse(Prop(a.params, "page"), Num(1))]
      [] operation = "getLinkedTransaction" ->   \* 2072-2075
           [method |-> "GET", path |-> "/LinkedTransactions/" \o a.id,
             query |-> <<>>,
             body |-> Undefined,
             ret |-> "first", key |-> "LinkedTransactions", mapper |-> "mapLinkedTransaction", bound |-> TRUE,
             page |-> Undefined]
      [] operation = "createLinkedTransaction" ->   \* 2077-2087
           [method |-> "POST", path |-> "/LinkedTransactions",
             query |-> <<>>,
             body |-> JSONstringify(Obj([SourceTransactionID |-> Prop(a.input, "sourceTransactionId"), SourceLineItemID |-> Prop(a.input, "sourceLineItemId"), ContactID |-> Prop(a.input, "contactId")])),
             ret |-> "first", key |-> "LinkedTransactions", mapper |-> "mapLinkedTransaction", bound |-> TRUE,
             page |-> Undefined]
      [] operation = "updateLinkedTransaction" ->   \* 2089-2101
           [method |-> "POST", path |-> "/LinkedTransactions/" \o a.id,
             query |-> <<>>,
             body |-> JSONstringify(Obj([SourceTransactionID |-> OrNull(Prop(a.input, "sourceTransactionId")), SourceLineItemID |-> OrNull(Prop(a.input, "sourceLineItemId")), ContactID |-> OrNull(Prop(a.input, "contactId")), TargetTransactionID |-> OrNull(Prop(a.input, "targetTransactionId")), TargetLineItemID |-> OrNull(Prop(a.input, "targetLineItemId"))])),
             ret |-> "first", key |-> "LinkedTransactions", mapper |-> "mapLinkedTransaction", bound |-> TRUE,
             page |-> Undefined]
      [] operation = "deleteLinkedTransaction" ->   \* 2103-2105
           [method |-> "DELETE", path |-> "/LinkedTransactions/" \o a.id,
             query |-> <<>>,
             body |-> Undefined,
             ret |-> "void", key |-> "", mapper |-> "", bound |-> TRUE,
             page |-> Undefined]

\* lines 2053-2105
LinkedTransactionsOperations(operation, a) ==
    CASE operation = "listLinkedTransactions" ->   \* 2053-2070
           [method |-> "GET", path |-> "/LinkedTransactions",
             query |-> QueryParams(<<<<Truthy(Prop(a.params, "page")), "page", String(Prop(a.params, "page"))>>,
                                       <<Truthy(Prop(a.params, "where")), "where", String(Prop(a.params, "where"))>>,
                                       <<Truthy(Prop(a.params, "sourceTransactionId")), "SourceTransactionID", String(Prop(a.params, "sourceTransactionId"))>>,
                                       <<Truthy(Prop(a.params, "contactId")), "ContactID", String(Prop(a.params, "contactId"))>>>>),
             body |-> Undefined,
             ret |-> "paged", key |-> "LinkedTransactions", mapper |-> "mapLinkedTransaction", bound |-> FALSE,
             page |-> OrElse(Prop(a.params, "page"), Num(1))]
      [] operation = "getLinkedTransaction" ->   \* 2072-2075
           [method |-> "GET", path |-> "/LinkedTransactions/" \o a.id,
             query |-> <<>>,
             body |-> Undefined,
             ret |-> "first", key |-> "LinkedTransactions", mapper |-> "mapLinkedTransaction", bound |-> TRUE,
             page |-> Undefined]
      [] operation = "createLinkedTransaction" ->   \* 2077-2087
           [method |-> "POST", path |-> "/LinkedTransactions",
             query |-> <<>>,
             body |-> JSONstringify(Obj([SourceTransactionID |-> Prop(a.input, "sourceTransactionId"), SourceLineItemID |-> Prop(a.input, "sourceLineItemId"), ContactID |-> Prop(a.input, "contactId")])),
             ret |-> "first", key |-> "LinkedTransactions", mapper |-> "mapLinkedTransaction", bound |-> TRUE,
             page |-> Undefined]
      [] operation = "updateLinkedTransaction" ->   \* 2089-2101
           [method |-> "POST", path |-> "/LinkedTransactions/" \o a.id,
             query |-> <<>>,
             body |-> JSONstringify(Obj([SourceTransactionID |-> Prop(a.input, "sourceTransactionId"), SourceLineItemID |-> Prop(a.input, "sourceLineItemId"), ContactID |-> Prop(a.input, "contactId"), TargetTransactionID |-> Prop(a.input, "targetTransactionId"), TargetLineItemID |-> Prop(a.input, "targetLineItemId")])),
             ret |-> "first", key |-> "LinkedTransactions", mapper |-> "mapLinkedTransaction", bound |-> TRUE,
             page |-> Undefined]
      [] operation = "deleteLinkedTransaction" ->   \* 2103-2105
           [method |-> "DELETE", path |-> "/LinkedTransactions/" \o a.id,
             query |-> <<>>,
             body |-> Undefined,
             ret |-> "void", key |-> "", mapper |-> "", bound |-> TRUE,
             page |-> Undefined]

RECURSIVE ReportsOperations(_, _)
\* lines 2126-2202
ReportsOperations(operation, a) ==
    CASE operation = "getReport" ->   \* 2126-2131
           [method |-> "GET", path |-> "/Reports/" \o a.id,
             query |-> URLSearchParams(OrElse(a.params, Record(<<>>))),
             body |-> Undefined,
             ret |-> "first", key |-> "Reports", mapper |-> "mapReport", bound |-> TRUE,
             page |-> Undefined]
      [] operation = "getBalanceSheet" ->   \* 2133-2143
           ReportsOperations("getReport", [a EXCEPT !.id = "BalanceSheet",
                  !.params = Record(QueryParams(<<<<Truthy(Prop(a.params, "date")), "date", String(Prop(a.params, "date"))>>,
                         <<Truthy(Prop(a.params, "periods")), "periods", String(Prop(a.params, "periods"))>>,
                         <<Truthy(Prop(a.params, "timeframe")), "timeframe", String(Prop(a.params, "timeframe"))>>,
                         <<Truthy(Prop(a.params, "trackingOptionId1")), "trackingOptionID1", String(Prop(a.params, "trackingOptionId1"))>>,
                         <<Truthy(Prop(a.params, "trackingOptionId2")), "trackingOptionID2", String(Prop(a.params, "trackingOptionId2"))>>,
                         <<Prop(a.params, "standardLayout") # Undefined, "standardLayout", String(Prop(a.params, "standardLayout"))>>,
                         <<Prop(a.params, "paymentsOnly") # Undefined, "paymentsOnly", String(Prop(a.params, "paymentsOnly"))>>>>))])
      [] operation = "getProfitAndLoss" ->   \* 2145-2158
           ReportsOperations("getReport", [a EXCEPT !.id = "ProfitAndLoss",
                  !.params = Record(QueryParams(<<<<Truthy(Prop(a.params, "fromDate")), "fromDate", String(Prop(a.params, "fromDate"))>>,
                         <<Truthy(Prop(a.params, "toDate")), "toDate", String(Prop(a.params, "toDate"))>>,
                         <<Truthy(Prop(a.params, "periods")), "periods", String(Prop(a.params, "periods"))>>,
                         <<Truthy(Prop(a.params, "timeframe")), "timeframe", String(Prop(a.params, "timeframe"))>>,
                         <<Truthy(Prop(a.params, "trackingCategoryId")), "trackingCategoryID", String(Prop(a.params, "trackingCategoryId"))>>,
                         <<Truthy(Prop(a.params, "trackingOptionId")), "trackingOptionID", String(Prop(a.params, "trackingOptionId"))>>,
                         <<Truthy(Prop(a.params, "trackingCategoryId2")), "trackingCategoryID2", String(Prop(a.params, "trackingCategoryId2"))>>,
                         <<Truthy(Prop(a.params, "trackingOptionId2")), "trackingOptionID2", String(Prop(a.params, "trackingOptionId2"))>>,
                         <<Prop(a.params, "standardLayout") # Undefined, "standardLayout", String(Prop(a.params, "standardLayout"))>>,
                         <<Prop(a.params, "paymentsOnly") # Undefined, "paymentsOnly", String(Prop(a.params, "paymentsOnly"))>>>>))])
      [] operation = "getTrialBalance" ->   \* 2160-2165
           ReportsOperations("getReport", [a EXCEPT !.id = "TrialBalance",
                  !.params = Record(QueryParams(<<<<Truthy(Prop(a.params, "date")), "date", String(Prop(a.params, "date"))>>,
                         <<Prop(a.params, "paymentsOnly") # Undefined, "paymentsOnly", String(Prop(a.params, "paymentsOnly"))>>>>))])
      [] operation = "getBankSummary" ->   \* 2167-2172
           ReportsOperations("getReport", [a EXCEPT !.id = "BankSummary",
                  !.params = Record(QueryParams(<<<<Truthy(Prop(a.params, "fromDate")), "fromDate", String(Prop(a.params, "fromDate"))>>,
                         <<Truthy(Prop(a.params, "toDate")), "toDate", String(Prop(a.params, "toDate"))>>>>))])
      [] operation = "getAgedReceivablesByContact" ->   \* 2174-2180
           ReportsOperations("getReport", [a EXCEPT !.id = "AgedReceivablesByContact",
                  !.params = Record(QueryParams(<<<<TRUE, "contactID", String(Prop(a.params, "contactId"))>>,
                         <<Truthy(Prop(a.params, "date")), "date", String(Prop(a.params, "date"))>>,
                         <<Truthy(Prop(a.params, "fromDate")), "fromDate", String(Prop(a.params, "fromDate"))>>,
                         <<Truthy(Prop(a.params, "toDate")), "toDate", String(Prop(a.params, "toDate"))>>>>))])
      [] operation = "getAgedPayablesByContact" ->   \* 2182-2188
           ReportsOperations("getReport", [a EXCEPT !.id = "AgedPayablesByContact",
                  !.params = Record(QueryParams(<<<<TRUE, "contactID", String(Prop(a.params, "contactId"))>>,
                         <<Truthy(Prop(a.params, "date")), "date", String(Prop(a.params, "date"))>>,
                         <<Truthy(Prop(a.params, "fromDate")), "fromDate", String(Prop(a.params, "fromDate"))>>,
                         <<Truthy(Prop(a.params, "toDate")), "toDate", String(Prop(a.params, "toDate"))>>>>))])
      [] operation = "getBudgetSummary" ->   \* 2190-2196
           ReportsOperations("getReport", [a EXCEPT !.id = "BudgetSummary",
                  !.params = Record(QueryParams(<<<<Truthy(Prop(a.params, "date")), "date", String(Prop(a.params, "date"))>>,
                         <<Truthy(Prop(a.params, "periods")), "periods", String(Prop(a.params, "periods"))>>,
                         <<Truthy(Prop(a.params, "timeframe")), "timeframe", String(Prop(a.params, "timeframe"))>>>>))])
      [] operation = "getExecutiveSummary" ->   \* 2198-2202
           ReportsOperations("getReport", [a EXCEPT !.id = "ExecutiveSummary",
                  !.params = Record(QueryParams(<<<<Truthy(Prop(a.params, "date")), "date", String(Prop(a.params, "date"))>>>>))])

\* the operations of XeroClient
OperationNames ==
    {"testConnection", "getOrganisation", "listContacts", "getContact",
     "createContact", "updateContact", "archiveContact", "listContactGroups",
     "getContactGroup", "createContactGroup", "updateContactGroup",
     "deleteContactGroup", "addContactsToGroup", "removeContactsFromGroup",
     "listAccounts", "getAccount", "createAccount", "updateAccount",
     "archiveAccount", "deleteAccount", "listInvoices", "getInvoice",
     "createInvoice", "updateInvoice", "voidInvoice", "deleteInvoice",
     "listCreditNotes", "getCreditNote", "createCreditNote",
     "updateCreditNote", "allocateCreditNote", "voidCreditNote",
     "listPayments", "getPayment", "createPayment", "deletePayment",
     "listBankTransactions", "getBankTransaction", "createBankTransaction",
     "updateBankTransaction", "listBankTransfers", "getBankTransfer",
     "createBankTransfer", "listItems", "getItem", "createItem", "updateItem",
     "deleteItem", "listPurchaseOrders", "getPurchaseOrder",
     "createPurchaseOrder", "updatePurchaseOrder", "deletePurchaseOrder",
     "listQuotes", "getQuote", "createQuote", "updateQuote", "deleteQuote",
     "listPrepayments", "getPrepayment", "allocatePrepayment",
     "listOverpayments", "getOverpayment", "allocateOverpayment",
     "listJournals", "getJournal", "listManualJournals", "getManualJournal",
     "createManualJournal", "updateManualJournal", "listBatchPayments",
     "getBatchPayment", "createBatchPayment", "deleteBatchPayment",
     "listTaxRates", "getTaxRate", "createTaxRate", "updateTaxRate",
     "listCurrencies", "createCurrency", "listTrackingCategories",
     "getTrackingCategory", "createTrackingCategory", "updateTrackingCategory",
     "deleteTrackingCategory", "createTrackingOption", "updateTrackingOption",
     "deleteTrackingOption", "listBrandingThemes", "getBrandingTheme",
     "listRepeatingInvoices", "getRepeatingInvoice", "createRepeatingInvoice",
     "updateRepeatingInvoice", "deleteRepeatingInvoice", "listUsers",
     "getUser", "listLinkedTransactions", "getLinkedTransaction",
     "createLinkedTransaction", "updateLinkedTransaction",
     "deleteLinkedTransaction", "getReport", "getBalanceSheet",
     "getProfitAndLoss", "getTrialBalance", "getBankSummary",
     "getAgedReceivablesByContact", "getAgedPayablesByContact",
     "getBudgetSummary", "getExecutiveSummary"}

Operation(operation, a) ==
    CASE operation \in {"testConnection"} ->
           ConnectionOperations(operation, a)
      [] operation \in {"getOrganisation"} ->
           OrganisationOperations(operation, a)
      [] operation \in {"listContacts", "getContact", "createContact", "updateContact", "archiveContact"} ->
           ContactsOperations(operation, a)
      [] operation \in {"listContactGroups", "getContactGroup", "createContactGroup", "updateContactGroup", "deleteContactGroup", "addContactsToGroup", "removeContactsFromGroup"} ->
           ContactGroupsOperations(operation, a)
      [] operation \in {"listAccounts", "getAccount", "createAccount", "updateAccount", "archiveAccount", "deleteAccount"} ->
           AccountsOperations(operation, a)
      [] operation \in {"listInvoices", "getInvoice", "createInvoice", "updateInvoice", "voidInvoice", "deleteInvoice"} ->
           InvoicesOperations(operation, a)
      [] operation \in {"listCreditNotes", "getCreditNote", "createCreditNote", "updateCreditNote", "allocateCreditNote", "voidCreditNote"} ->
           CreditNotesOperations(operation, a)
      [] operation \in {"listPayments", "getPayment", "createPayment", "deletePayment"} ->
           PaymentsOperations(operation, a)
      [] operation \in {"listBankTransactions", "getBankTransaction", "createBankTransaction", "updateBankTransaction"} ->
           BankTransactionsOperations(operation, a)
      [] operation \in {"listBankTransfers", "getBankTransfer", "createBankTransfer"} ->
           BankTransfersOperations(operation, a)
      [] operation \in {"listItems", "getItem", "createItem", "updateItem", "deleteItem"} ->
           ItemsOperations(operation, a)
      [] operation \in {"listPurchaseOrders", "getPurchaseOrder", "createPurchaseOrder", "updatePurchaseOrder", "deletePurchaseOrder"} ->
           PurchaseOrdersOperations(operation, a)
      [] operation \in {"listQuotes", "getQuote", "createQuote", "updateQuote", "deleteQuote"} ->
           QuotesOperations(operation, a)
      [] operation \in {"listPrepayments", "getPrepayment", "allocatePrepayment"} ->
           PrepaymentsOperations(operation, a)
      [] operation \in {"listOverpayments", "getOverpayment", "allocateOverpayment"} ->
           OverpaymentsOperations(operation, a)
      [] operation \in {"listJournals", "getJournal"} ->
           JournalsOperations(operation, a)
      [] operation \in {"listManualJournals", "getManualJournal", "createManualJournal", "updateManualJournal"} ->
           ManualJournalsOperations(operation, a)
      [] operation \in {"listBatchPayments", "getBatchPayment", "createBatchPayment", "deleteBatchPayment"} ->
           BatchPaymentsOperations(operation, a)
      [] operation \in {"listTaxRates", "getTaxRate", "createTaxRate", "updateTaxRate"} ->
           TaxRatesOperations(operation, a)
      [] operation \in {"listCurrencies", "createCurrency"} ->
           CurrenciesOperations(operation, a)
      [] operation \in {"listTrackingCategories", "getTrackingCategory", "createTrackingCategory", "updateTrackingCategory", "deleteTrackingCategory", "createTrackingOption", "updateTrackingOption", "deleteTrackingOption"} ->
           TrackingCategoriesOperations(operation, a)
      [] operation \in {"listBrandingThemes", "getBrandingTheme"} ->
           BrandingThemesOperations(operation, a)
      [] operation \in {"listRepeatingInvoices", "getRepeatingInvoice", "createRepeatingInvoice", "updateRepeatingInvoice", "deleteRepeatingInvoice"} ->
           RepeatingInvoicesOperations(operation, a)
      [] operation \in {"listUsers", "getUser"} ->
           UsersOperations(operation, a)
      [] operation \in {"listLinkedTransactions", "getLinkedTransaction", "createLinkedTransaction", "updateLinkedTransaction", "deleteLinkedTransaction"} ->
           LinkedTransactionsOperations(operation, a)
      [] operation \in {"getReport", "getBalanceSheet", "getProfitAndLoss", "getTrialBalance", "getBankSummary", "getAgedReceivablesByContact", "getAgedPayablesByContact", "getBudgetSummary", "getExecutiveSummary"} ->
           ReportsOperations(operation, a)

-----------------------------------------------------------------------------
(* How an operation turns what request() settled with into its own result *)

\* hasMore: x.length >= 100
PageSize == 100

\* arr[0]
First(arr) ==
    IF TypeOf(arr) = "array" /\ Len(Val(arr)) > 0 THEN Val(arr)[1] ELSE Undefined

\* getOrganisation: the object literal built from data.Organisations[0]
organisationOf(o) ==
    IF Nullish(o) THEN Thrown
    ELSE Obj([organisationId |-> Prop(o, "OrganisationID"),
              name |-> Prop(o, "Name"),
              legalName |-> Prop(o, "LegalName"),
              shortCode |-> Prop(o, "ShortCode"),
              organisationType |-> Prop(o, "OrganisationType"),
              baseCurrency |-> Prop(o, "BaseCurrency"),
              countryCode |-> Prop(o, "CountryCode"),
              isDemoCompany |-> Prop(o, "IsDemoCompany"),
              salesTaxBasis |-> Prop(o, "SalesTaxBasis"),
              salesTaxPeriod |-> Prop(o, "SalesTaxPeriod"),
              financialYearEndDay |-> Prop(o, "FinancialYearEndDay"),
              financialYearEndMonth |-> Prop(o, "FinancialYearEndMonth"),
              createdDateUtc |-> Prop(o, "CreatedDateUTC"),
              timezone |-> Prop(o, "Timezone"),
              organisationEntityType |-> Prop(o, "OrganisationEntityType"),
              version |-> Prop(o, "Version"),
              lineOfBusiness |-> Prop(o, "LineOfBusiness")])

\* listCurrencies / createCurrency: c => ({ code: c.Code, description: c.Description })
currencyOf(c) ==
    IF Nullish(c) THEN Thrown
    ELSE Obj([code |-> Prop(c, "Code"), description |-> Prop(c, "Description")])

\* the mapper an operation names, applied to one wire entity
FromWire(mapper, w, bound) ==
    CASE mapper = "mapContact" -> mapContact(w)
      [] mapper = "mapContactGroup" -> mapContactGroup(w, bound)
      [] mapper = "mapAccount" -> mapAccount(w)
      [] mapper = "mapInvoice" -> mapInvoice(w, bound)
      [] mapper = "mapCreditNote" -> mapCreditNote(w, bound)
      [] mapper = "mapPayment" -> mapPayment(w)
      [] mapper = "mapBankTransaction" -> mapBankTransaction(w, bound)
      [] mapper = "mapBankTransfer" -> mapBankTransfer(w)
      [] mapper = "mapItem" -> mapItem(w)
      [] mapper = "mapPurchaseOrder" -> mapPurchaseOrder(w, bound)
      [] mapper = "mapQuote" -> mapQuote(w, bound)
      [] mapper = "mapPrepayment" -> mapPrepayment(w, bound)
      [] mapper = "mapOverpayment" -> mapOverpayment(w, bound)
      [] mapper = "mapJournal" -> mapJournal(w)
      [] mapper = "mapManualJournal" -> mapManualJournal(w)
      [] mapper = "mapBatchPayment" -> mapBatchPayment(w)
      [] mapper = "mapTaxRate" -> mapTaxRate(w)
      [] mapper = "mapTrackingCategory" -> mapTrackingCategory(w)
      [] mapper = "mapBrandingTheme" -> mapBrandingTheme(w)
      [] mapper = "mapRepeatingInvoice" -> mapRepeatingInvoice(w, bound)
      [] mapper = "mapUser" -> mapUser(w)
      [] mapper = "mapLinkedTransaction" -> mapLinkedTransaction(w)
      [] mapper = "mapReport" -> mapReport(w)
      [] mapper = "currency" -> currencyOf(w)

\* a value the operation computed, or the TypeError its computation threw
Completion(v) == IF v = Thrown THEN Rejected(TypeError) ELSE Resolved(v)

\* testConnection: the whole body sits in try/catch and the catch returns
testConnection(req) ==
    LET failed(error) == Resolved(Obj([connected |-> Bool(FALSE), message |-> error.message]))
        data == req.value
        orgs == Prop(data, "Organisations")
        org == First(orgs)
    IN IF req.kind = "rejected" THEN failed(req.error)
       ELSE IF Nullish(data) \/ Nullish(orgs) THEN failed(TypeError)
       ELSE Resolved(Obj([connected |-> Bool(TRUE),
                          message |-> Str("Connected to " \o
                                          String(OrElse(Prop(org, "name"), Str("Xero"))))]))

\* operations that return nothing and wrap their request in a catch-all: a
\* rejection of request() is swallowed and the operation resolves
OperationResultSwallowing(d, req) ==
    IF d.ret = "connection" THEN testConnection(req)
    ELSE IF d.ret = "void" THEN Resolved(Undefined)
    ELSE IF req.kind = "rejected" THEN req
    ELSE LET data == req.value
             coll == Prop(data, d.key)
         IN IF Nullish(data) \/ Nullish(coll) THEN Rejected(TypeError)
            ELSE IF d.ret = "organisation" THEN Completion(organisationOf(First(coll)))
            ELSE IF d.ret = "first" THEN Completion(FromWire(d.mapper, First(coll), TRUE))
            ELSE IF TypeOf(coll) # "array" THEN Rejected(TypeError)
            ELSE LET F(w) == FromWire(d.mapper, w, d.bound)
                     items == MapElements(coll, F)
                 IN IF d.ret = "list" THEN Completion(items)
                    ELSE IF items = Thrown THEN Rejected(TypeError)
                    ELSE Resolved(Obj([items |-> items,
                                       count |-> Num(Len(Val(items))),
                                       hasMore |-> Bool(Len(Val(items)) >= PageSize),
                                       page |-> d.page]))

\* an operation that, when the request to void an invoice is rejected, takes the
\* invoice to be voided already and resolves with that status
OperationResultInferringVoided(d, req) ==
    IF d.ret = "connection" THEN testConnection(req)
    ELSE IF req.kind = "rejected"
            /\ Prop(First(Prop(d.body, "Invoices")), "Status") = Str("VOIDED")
    THEN Resolved(Obj([invoiceId |-> Prop(First(Prop(d.body, "Invoices")), "InvoiceID"),
                       status |-> Str("VOIDED")]))
    ELSE IF req.kind = "rejected" THEN req
    ELSE IF d.ret = "void" THEN Resolved(Undefined)
    ELSE LET data == req.value
             coll == Prop(data, d.key)
         IN IF Nullish(data) \/ Nullish(coll) THEN Rejected(TypeError)
            ELSE IF d.ret = "organisation" THEN Completion(organisationOf(First(coll)))
            ELSE IF d.ret = "first" THEN Completion(FromWire(d.mapper, First(coll), TRUE))
            ELSE IF TypeOf(coll) # "array" THEN Rejected(TypeError)
            ELSE LET F(w) == FromWire(d.mapper, w, d.bound)
                     items == MapElements(coll, F)
                 IN IF d.ret = "list" THEN Completion(items)
                    ELSE IF items = Thrown THEN Rejected(TypeError)
                    ELSE Resolved(Obj([items |-> items,
                                       count |-> Num(Len(Val(items))),
                                       hasMore |-> Bool(Len(Val(items)) >= PageSize),
                                       page |-> d.page]))

\* every other operation: `const data = await this.request(...)` is not inside
\* a try, so a rejection of request() is the rejection of the operation
OperationResult(d, req) ==
    IF d.ret = "connection" THEN testConnection(req)
    ELSE IF req.kind = "rejected" THEN req
    ELSE IF d.ret = "void" THEN Resolved(Undefined)
    ELSE LET data == req.value
             coll == Prop(data, d.key)
         IN IF Nullish(data) \/ Nullish(coll) THEN Rejected(TypeError)
            ELSE IF d.ret = "organisation" THEN Completion(organisationOf(First(coll)))
            ELSE IF d.ret = "first" THEN Completion(FromWire(d.mapper, First(coll), TRUE))
            ELSE IF TypeOf(coll) # "array" THEN Rejected(TypeError)
            ELSE LET F(w) == FromWire(d.mapper, w, d.bound)
                     items == MapElements(coll, F)
                 IN IF d.ret = "list" THEN Completion(items)
                    ELSE IF items = Thrown THEN Rejected(TypeError)
                    ELSE Resolved(Obj([items |-> items,
                                       count |-> Num(Len(Val(items))),
                                       hasMore |-> Bool(Len(Val(items)) >= PageSize),
                                       page |-> d.page]))

-----------------------------------------------------------------------------
(* Response formatting (utils/formatters.ts).  A markdown text is kept as   *)
(* the sequence of its lines; a table row is the sequence of its cells.     *)

Markdown(lines) == <<"markdown", lines>>

\* formatContactsTable: one row per contact
formatContactsTable(contacts) ==
    LET phoneOf(contact) ==
            LET phones == Prop(contact, "phones")
                hits == IF TypeOf(phones) = "array"
                        THEN SelectSeq(Val(phones), LAMBDA p : Truthy(Prop(p, "phoneNumber")))
                        ELSE <<>>
            IN IF Nullish(phones) THEN Str("-")
               ELSE IF TypeOf(phones) # "array" THEN Thrown
               ELSE IF \E i \in 1..Len(Val(phones)) : Nullish(Val(phones)[i]) THEN Thrown
               ELSE IF hits = <<>> THEN Str("-")
               ELSE OrElse(Prop(hits[1], "phoneNumber"), Str("-"))
        row(contact) ==
            IF Nullish(contact) \/ phoneOf(contact) = Thrown THEN Thrown
            ELSE <<String(Prop(contact, "contactId")),
                   String(OrElse(Prop(contact, "name"), Str("-"))),
                   String(OrElse(Prop(contact, "emailAddress"), Str("-"))),
                   String(phoneOf(contact)),
                   String(OrElse(Prop(contact, "contactStatus"), Str("-")))>>
    IN [i \in 1..Len(contacts) |-> row(contacts[i])]

\* formatInvoicesTable (totals below 1000 have no digit grouping)
formatInvoicesTable(invoices) ==
    LET row(invoice) ==
            IF Nullish(invoice) THEN Thrown
            ELSE <<String(OrElse(Prop(invoice, "invoiceNumber"), Prop(invoice, "invoiceId"))),
                   String(OrElse(Prop(Prop(invoice, "contact"), "name"), Str("-"))),
                   IF Nullish(Prop(invoice, "total")) THEN "-"
                   ELSE String(OrElse(Str(String(Prop(invoice, "total"))), Str("-"))),
                   String(OrElse(Prop(invoice, "status"), Str("-"))),
                   String(OrElse(Prop(invoice, "dueDate"), Str("-")))>>
    IN [i \in 1..Len(invoices) |-> row(invoices[i])]

\* formatAccountsTable
formatAccountsTable(accounts) ==
    LET row(account) ==
            IF Nullish(account) THEN Thrown
            ELSE <<String(OrElse(Prop(account, "code"), Str("-"))),
                   String(Prop(account, "name")),
                   String(OrElse(Prop(account, "type"), Str("-"))),
                   String(OrElse(Prop(account, "status"), Str("-")))>>
    IN [i \in 1..Len(accounts) |-> row(accounts[i])]

\* formatPaymentsTable
formatPaymentsTable(payments) ==
    LET row(payment) ==
            IF Nullish(payment) THEN Thrown
            ELSE <<String(Prop(payment, "paymentId")),
                   String(OrElse(Prop(Prop(payment, "invoice"), "invoiceNumber"), Str("-"))),
                   String(Prop(payment, "amount")),
                   String(OrElse(Prop(payment, "date"), Str("-"))),
                   String(OrElse(Prop(payment, "status"), Str("-")))>>
    IN [i \in 1..Len(payments) |-> row(payments[i])]

\* formatGenericTable: Object.keys(items[0]) throws for a nullish first item.
\* The columns are the first five keys in insertion order, which objects here
\* do not record; a row is kept as the item it renders.
formatGenericTable(items) ==
    IF items = <<>> THEN <<"_No items_">>
    ELSE IF Nullish(items[1]) THEN <<Thrown>>
    ELSE [i \in 1..Len(items) |-> IF Nullish(items[i]) THEN <<>> ELSE items[i]]

\* formatPaginatedAsMarkdown
formatPaginatedAsMarkdown(data, entityType) ==
    LET items == Val(Prop(data, "items"))
        head == <<"## " \o entityType, "**Showing:** " \o String(Prop(data, "count"))>>
                \o (IF Truthy(Prop(data, "hasMore"))
                    THEN <<"**More available:** Yes (page: " \o
                           String(Num(Val(OrElse(Prop(data, "page"), Num(1))) + 1)) \o ")">>
                    ELSE <<>>)
        table == CASE entityType = "contacts" -> formatContactsTable(items)
                   [] entityType = "invoices" -> formatInvoicesTable(items)
                   [] entityType = "accounts" -> formatAccountsTable(items)
                   [] entityType = "payments" -> formatPaymentsTable(items)
                   [] OTHER -> formatGenericTable(items)
    IN IF items = <<>> THEN Markdown(head \o <<"_No items found._">>)
       ELSE IF \E i \in 1..Len(table) : table[i] = Thrown THEN Thrown
       ELSE Markdown(head \o table)

\* formatObjectAsMarkdown: null and undefined members are skipped
formatObjectAsMarkdown(data, entityType) ==
    LET o == Val(data)
        shown == {k \in DOMAIN o : ~Nullish(o[k])}
    IN Markdown(<<"## " \o entityType,
                  [k \in shown |-> IF TypeOf(o[k]) \in {"object", "array"}
                                   THEN JSONstringify(o[k]) ELSE Str(String(o[k]))]>>)

\* isPaginatedResponse
isPaginatedResponse(data) ==
    TypeOf(data) = "object" /\ TypeOf(Prop(data, "items")) = "array"

\* formatAsMarkdown
formatAsMarkdown(data, entityType) ==
    IF isPaginatedResponse(data) THEN formatPaginatedAsMarkdown(data, entityType)
    ELSE IF TypeOf(data) = "array"
    THEN LET table == formatGenericTable(Val(data))
         IN IF \E i \in 1..Len(table) : table[i] = Thrown THEN Thrown ELSE Markdown(table)
    ELSE IF TypeOf(data) = "object" THEN formatObjectAsMarkdown(data, entityType)
    ELSE Markdown(<<String(data)>>)

\* a tool response { content: [{ type: 'text', text }], isError? }
ToolResponse(text, isError) == <<"response", [content |-> text, isError |-> isError]>>

\* formatResponse: the text is the markdown or JSON.stringify(data)
formatResponse(data, format, entityType) ==
    IF format = "markdown"
    THEN LET text == formatAsMarkdown(data, entityType)
         IN IF text = Thrown THEN Thrown ELSE ToolResponse(text, FALSE)
    ELSE ToolResponse(JSONstringify(data), FALSE)

\* utils/errors.ts: CrmApiError and the classes that extend it
IsCrmApiError(error) == error.name \in {"CrmApiError", "RateLimitError", "AuthenticationError"}

\* utils/errors.ts: the retryable flag of an error; a rate limit is worth retrying
Retryable(error) == error.name = "RateLimitError"

\* utils/errors.ts: formatErrorForLogging never throws
formatErrorForLogging(error) ==
    Obj([name |-> Str(error.name), message |-> error.message])

\* formatError
formatError(error) ==
    LET errorInfo == formatErrorForLogging(error)
        message == "Error: " \o String(error.message) \o
                   (IF IsCrmApiError(error) /\ Retryable(error) THEN " (retryable)" ELSE "")
    IN ToolResponse(JSONstringify(Obj([error |-> Str(message), details |-> errorInfo])), TRUE)

-----------------------------------------------------------------------------
(* Tools.  Every handler has the same shape:                                *)
(*   try { const r = await client.operation(...); return <payload of r> }   *)
(*   catch (error) { return formatError(error) }                            *)
(* A table row names the operation and how the payload is built: through    *)
(* formatResponse (respond, wrap, format, entityType) or inline as          *)
(* JSON.stringify({ success: true, message, [key]: r }).                    *)

\* accounts.ts lines 19-159
registerAccountTools(tool, a) ==
    CASE tool = "xero_list_accounts" ->   \* 32-39
           [operation |-> "listAccounts", respond |-> "formatResponse", wrap |-> "itemsNoMore",
            format |-> "arg", entityType |-> "accounts", key |-> "", message |-> ""]
      [] tool = "xero_get_account" ->   \* 52-59
           [operation |-> "getAccount", respond |-> "formatResponse", wrap |-> "none",
            format |-> "arg", entityType |-> "account", key |-> "", message |-> ""]
      [] tool = "xero_create_account" ->   \* 83-97
           [operation |-> "createAccount", respond |-> "inline", wrap |-> "success",
            format |-> "json", entityType |-> "", key |-> "account", message |-> "Account created"]
      [] tool = "xero_update_account" ->   \* 117-131
           [operation |-> "updateAccount", respond |-> "inline", wrap |-> "success",
            format |-> "json", entityType |-> "", key |-> "account", message |-> "Account updated"]
      [] tool = "xero_delete_account" ->   \* 143-157
           [operation |-> "deleteAccount", respond |-> "inline", wrap |-> "success",
            format |-> "json", entityType |-> "", key |-> "", message |-> "Account " \o a.id \o " deleted"]

\* banking.ts lines 21-221
registerBankingTools(tool, a) ==
    CASE tool = "xero_list_bank_transactions" ->   \* 37-44
           [operation |-> "listBankTransactions", respond |-> "formatResponse", wrap |-> "none",
            format |-> "arg", entityType |-> "bankTransactions", key |-> "", message |-> ""]
      [] tool = "xero_get_bank_transaction" ->   \* 57-64
           [operation |-> "getBankTransaction", respond |-> "formatResponse", wrap |-> "none",
            format |-> "arg", entityType |-> "bankTransaction", key |-> "", message |-> ""]
      [] tool = "xero_create_bank_transaction" ->   \* 87-109
           [operation |-> "createBankTransaction", respond |-> "inline", wrap |-> "success",
            format |-> "json", entityType |-> "", key |-> "transaction", message |-> "Bank transaction created"]
      [] tool = "xero_update_bank_transaction" ->   \* 125-139
           [operation |-> "updateBankTransaction", respond |-> "inline", wrap |-> "success",
            format |-> "json", entityType |-> "", key |-> "transaction", message |-> "Bank transaction updated"]
      [] tool = "xero_list_bank_transfers" ->   \* 155-162
           [operation |-> "listBankTransfers", respond |-> "formatResponse", wrap |-> "none",
            format |-> "arg", entityType |-> "bankTransfers", key |-> "", message |-> ""]
      [] tool = "xero_get_bank_transfer" ->   \* 175-182
           [operation |-> "getBankTransfer", respond |-> "formatResponse", wrap |-> "none",
            format |-> "arg", entityType |-> "bankTransfer", key |-> "", message |-> ""]
      [] tool = "xero_create_bank_transfer" ->   \* 200-219
           [operation |-> "createBankTransfer", respond |-> "inline", wrap |-> "success",
            format |-> "json", entityType |-> "", key |-> "transfer", message |-> "Bank transfer created"]

\* items.ts lines 12-196
registerItemTools(tool, a) ==
    CASE tool = "xero_list_items" ->   \* 23-30
           [operation |-> "listItems", respond |-> "formatResponse", wrap |-> "itemsNoMore",
            format |-> "arg", entityType |-> "items", key |-> "", message |-> ""]
      [] tool = "xero_get_item" ->   \* 43-50
           [operation |-> "getItem", respond |-> "formatResponse", wrap |-> "none",
            format |-> "arg", entityType |-> "item", key |-> "", message |-> ""]
      [] tool = "xero_create_item" ->   \* 86-134
           [operation |-> "createItem", respond |-> "inline", wrap |-> "success",
            format |-> "json", entityType |-> "", key |-> "item", message |-> "Item created"]
      [] tool = "xero_update_item" ->   \* 154-168
           [operation |-> "updateItem", respond |-> "inline", wrap |-> "success",
            format |-> "json", entityType |-> "", key |-> "item", message |-> "Item updated"]
      [] tool = "xero_delete_item" ->   \* 180-194
           [operation |-> "deleteItem", respond |-> "inline", wrap |-> "success",
            format |-> "json", entityType |-> "", key |-> "", message |-> "Item " \o a.id \o " deleted"]

\* organisation.ts lines 12-44
registerOrganisationTools(tool, a) ==
    CASE tool = "xero_test_connection" ->   \* 17-24
           [operation |-> "testConnection", respond |-> "formatResponse", wrap |-> "none",
            format |-> "json", entityType |-> "connection", key |-> "", message |-> ""]
      [] tool = "xero_get_organisation" ->   \* 35-42
           [operation |-> "getOrganisation", respond |-> "formatResponse", wrap |-> "none",
            format |-> "arg", entityType |-> "organisation", key |-> "", message |-> ""]

\* quotes.ts lines 23-191
registerQuoteTools(tool, a) ==
    CASE tool = "xero_list_quotes" ->   \* 40-47
           [operation |-> "listQuotes", respond |-> "formatResponse", wrap |-> "none",
            format |-> "arg", entityType |-> "quotes", key |-> "", message |-> ""]
      [] tool = "xero_get_quote" ->   \* 60-67
           [operation |-> "getQuote", respond |-> "formatResponse", wrap |-> "none",
            format |-> "arg", entityType |-> "quote", key |-> "", message |-> ""]
      [] tool = "xero_create_quote" ->   \* 97-123
           [operation |-> "createQuote", respond |-> "inline", wrap |-> "success",
            format |-> "json", entityType |-> "", key |-> "quote", message |-> "Quote created"]
      [] tool = "xero_update_quote" ->   \* 149-163
           [operation |-> "updateQuote", respond |-> "inline", wrap |-> "success",
            format |-> "json", entityType |-> "", key |-> "quote", message |-> "Quote updated"]
      [] tool = "xero_delete_quote" ->   \* 175-189
           [operation |-> "deleteQuote", respond |-> "inline", wrap |-> "success",
            format |-> "json", entityType |-> "", key |-> "", message |-> "Quote " \o a.id \o " deleted"]

\* quotes.ts lines 204-449
registerReportTools(tool, a) ==
    CASE tool = "xero_get_balance_sheet" ->   \* 227-242
           [operation |-> "getBalanceSheet", respond |-> "formatResponse", wrap |-> "none",
            format |-> "arg", entityType |-> "report", key |-> "", message |-> ""]
      [] tool = "xero_get_profit_and_loss" ->   \* 269-285
           [operation |-> "getProfitAndLoss", respond |-> "formatResponse", wrap |-> "none",
            format |-> "arg", entityType |-> "report", key |-> "", message |-> ""]
      [] tool = "xero_get_trial_balance" ->   \* 300-307
           [operation |-> "getTrialBalance", respond |-> "formatResponse", wrap |-> "none",
            format |-> "arg", entityType |-> "report", key |-> "", message |-> ""]
      [] tool = "xero_get_bank_summary" ->   \* 322-329
           [operation |-> "getBankSummary", respond |-> "formatResponse", wrap |-> "none",
            format |-> "arg", entityType |-> "report", key |-> "", message |-> ""]
      [] tool = "xero_get_aged_receivables_by_contact" ->   \* 348-355
           [operation |-> "getAgedReceivablesByContact", respond |-> "formatResponse", wrap |-> "none",
            format |-> "arg", entityType |-> "report", key |-> "", message |-> ""]
      [] tool = "xero_get_aged_payables_by_contact" ->   \* 374-381
           [operation |-> "getAgedPayablesByContact", respond |-> "formatResponse", wrap |-> "none",
            format |-> "arg", entityType |-> "report", key |-> "", message |-> ""]
      [] tool = "xero_get_budget_summary" ->   \* 398-405
           [operation |-> "getBudgetSummary", respond |-> "formatResponse", wrap |-> "none",
            format |-> "arg", entityType |-> "report", key |-> "", message |-> ""]
      [] tool = "xero_get_executive_summary" ->   \* 418-425
           [operation |-> "getExecutiveSummary", respond |-> "formatResponse", wrap |-> "none",
            format |-> "arg", entityType |-> "report", key |-> "", message |-> ""]
      [] tool = "xero_get_report" ->   \* 440-447
           [operation |-> "getReport", respond |-> "formatResponse", wrap |-> "none",
            format |-> "arg", entityType |-> "report", key |-> "", message |-> ""]

\* part_000 lines 33-181
registerLinkedTransactionTools(tool, a) ==
    CASE tool = "xero_list_linked_transactions" ->   \* 48-59
           [operation |-> "listLinkedTransactions", respond |-> "formatResponse", wrap |-> "none",
            format |-> "arg", entityType |-> "linkedTransactions", key |-> "", message |-> ""]
      [] tool = "xero_get_linked_transaction" ->   \* 72-79
           [operation |-> "getLinkedTransaction", respond |-> "formatResponse", wrap |-> "none",
            format |-> "arg", entityType |-> "linkedTransaction", key |-> "", message |-> ""]
      [] tool = "xero_create_linked_transaction" ->   \* 99-119
           [operation |-> "createLinkedTransaction", respond |-> "inline", wrap |-> "success",
            format |-> "json", entityType |-> "", key |-> "linkedTransaction", message |-> "Linked transaction created"]
      [] tool = "xero_update_linked_transaction" ->   \* 139-153
           [operation |-> "updateLinkedTransaction", respond |-> "inline", wrap |-> "success",
            format |-> "json", entityType |-> "", key |-> "linkedTransaction", message |-> "Linked transaction updated"]
      [] tool = "xero_delete_linked_transaction" ->   \* 165-179
           [operation |-> "deleteLinkedTransaction", respond |-> "inline", wrap |-> "success",
            format |-> "json", entityType |-> "", key |-> "", message |-> "Linked transaction " \o a.id \o " deleted"]

\* part_001 lines 12-446
registerSettingsTools(tool, a) ==
    CASE tool = "xero_list_tracking_categories" ->   \* 20-27
           [operation |-> "listTrackingCategories", respond |-> "formatResponse", wrap |-> "items",
            format |-> "arg", entityType |-> "trackingCategories", key |-> "", message |-> ""]
      [] tool = "xero_get_tracking_category" ->   \* 40-47
           [operation |-> "getTrackingCategory", respond |-> "formatResponse", wrap |-> "none",
            format |-> "arg", entityType |-> "trackingCategory", key |-> "", message |-> ""]
      [] tool = "xero_create_tracking_category" ->   \* 59-73
           [operation |-> "createTrackingCategory", respond |-> "inline", wrap |-> "success",
            format |-> "json", entityType |-> "", key |-> "category", message |-> "Tracking category created"]
      [] tool = "xero_update_tracking_category" ->   \* 87-101
           [operation |-> "updateTrackingCategory", respond |-> "inline", wrap |-> "success",
            format |-> "json", entityType |-> "", key |-> "category", message |-> "Tracking category updated"]
      [] tool = "xero_delete_tracking_category" ->   \* 113-127
           [operation |-> "deleteTrackingCategory", respond |-> "inline", wrap |-> "success",
            format |-> "json", entityType |-> "", key |-> "", message |-> "Tracking category " \o a.id \o " deleted"]
      [] tool = "xero_create_tracking_option" ->   \* 141-155
           [operation |-> "createTrackingOption", respond |-> "inline", wrap |-> "success",
            format |-> "json", entityType |-> "", key |-> "option", message |-> "Tracking option created"]
      [] tool = "xero_update_tracking_option" ->   \* 171-185
           [operation |-> "updateTrackingOption", respond |-> "inline", wrap |-> "success",
            format |-> "json", entityType |-> "", key |-> "option", message |-> "Tracking option updated"]
      [] tool = "xero_delete_tracking_option" ->   \* 199-213
           [operation |-> "deleteTrackingOption", respond |-> "inline", wrap |-> "success",
            format |-> "json", entityType |-> "", key |-> "", message |-> "Tracking option " \o a.id2 \o " deleted"]
      [] tool = "xero_list_tax_rates" ->   \* 223-230
           [operation |-> "listTaxRates", respond |-> "formatResponse", wrap |-> "items",
            format |-> "arg", entityType |-> "taxRates", key |-> "", message |-> ""]
      [] tool = "xero_get_tax_rate" ->   \* 243-250
           [operation |-> "getTaxRate", respond |-> "formatResponse", wrap |-> "none",
            format |-> "arg", entityType |-> "taxRate", key |-> "", message |-> ""]
      [] tool = "xero_create_tax_rate" ->   \* 275-289
           [operation |-> "createTaxRate", respond |-> "inline", wrap |-> "success",
            format |-> "json", entityType |-> "", key |-> "taxRate", message |-> "Tax rate created"]
      [] tool = "xero_update_tax_rate" ->   \* 311-325
           [operation |-> "updateTaxRate", respond |-> "inline", wrap |-> "success",
            format |-> "json", entityType |-> "", key |-> "taxRate", message |-> "Tax rate updated"]
      [] tool = "xero_list_currencies" ->   \* 335-342
           [operation |-> "listCurrencies", respond |-> "formatResponse", wrap |-> "items",
            format |-> "arg", entityType |-> "currencies", key |-> "", message |-> ""]
      [] tool = "xero_create_currency" ->   \* 356-370
           [operation |-> "createCurrency", respond |-> "inline", wrap |-> "success",
            format |-> "json", entityType |-> "", key |-> "currency", message |-> "Currency added"]
      [] tool = "xero_list_branding_themes" ->   \* 380-387
           [operation |-> "listBrandingThemes", respond |-> "formatResponse", wrap |-> "items",
            format |-> "arg", entityType |-> "brandingThemes", key |-> "", message |-> ""]
      [] tool = "xero_get_branding_theme" ->   \* 400-407
           [operation |-> "getBrandingTheme", respond |-> "formatResponse", wrap |-> "none",
            format |-> "arg", entityType |-> "brandingTheme", key |-> "", message |-> ""]
      [] tool = "xero_list_users" ->   \* 417-424
           [operation |-> "listUsers", respond |-> "formatResponse", wrap |-> "items",
            format |-> "arg", entityType |-> "users", key |-> "", message |-> ""]
      [] tool = "xero_get_user" ->   \* 437-444
           [operation |-> "getUser", respond |-> "formatResponse", wrap |-> "none",
            format |-> "arg", entityType |-> "user", key |-> "", message |-> ""]

\* part_002 lines 32-181
registerRepeatingInvoiceTools(tool, a) ==
    CASE tool = "xero_list_repeating_invoices" ->   \* 39-46
           [operation |-> "listRepeatingInvoices", respond |-> "formatResponse", wrap |-> "items",
            format |-> "arg", entityType |-> "repeatingInvoices", key |-> "", message |-> ""]
      [] tool = "xero_get_repeating_invoice" ->   \* 59-66
           [operation |-> "getRepeatingInvoice", respond |-> "formatResponse", wrap |-> "none",
            format |-> "arg", entityType |-> "repeatingInvoice", key |-> "", message |-> ""]
      [] tool = "xero_create_repeating_invoice" ->   \* 92-123
           [operation |-> "createRepeatingInvoice", respond |-> "inline", wrap |-> "success",
            format |-> "json", entityType |-> "", key |-> "invoice", message |-> "Repeating invoice created"]
      [] tool = "xero_update_repeating_invoice" ->   \* 139-153
           [operation |-> "updateRepeatingInvoice", respond |-> "inline", wrap |-> "success",
            format |-> "json", entityType |-> "", key |-> "invoice", message |-> "Repeating invoice updated"]
      [] tool = "xero_delete_repeating_invoice" ->   \* 165-179
           [operation |-> "deleteRepeatingInvoice", respond |-> "inline", wrap |-> "success",
            format |-> "json", entityType |-> "", key |-> "", message |-> "Repeating invoice " \o a.id \o " deleted"]

\* part_002 lines 204-568
registerPaymentTools(tool, a) ==
    CASE tool = "xero_list_payments" ->   \* 220-227
           [operation |-> "listPayments", respond |-> "formatResponse", wrap |-> "none",
            format |-> "arg", entityType |-> "payments", key |-> "", message |-> ""]
      [] tool = "xero_get_payment" ->   \* 240-247
           [operation |-> "getPayment", respond |-> "formatResponse", wrap |-> "none",
            format |-> "arg", entityType |-> "payment", key |-> "", message |-> ""]
      [] tool = "xero_create_payment" ->   \* 269-290
           [operation |-> "createPayment", respond |-> "inline", wrap |-> "success",
            format |-> "json", entityType |-> "", key |-> "payment", message |-> "Payment created"]
      [] tool = "xero_delete_payment" ->   \* 302-316
           [operation |-> "deletePayment", respond |-> "inline", wrap |-> "success",
            format |-> "json", entityType |-> "", key |-> "", message |-> "Payment " \o a.id \o " deleted"]
      [] tool = "xero_list_credit_notes" ->   \* 334-341
           [operation |-> "listCreditNotes", respond |-> "formatResponse", wrap |-> "none",
            format |-> "arg", entityType |-> "creditNotes", key |-> "", message |-> ""]
      [] tool = "xero_get_credit_note" ->   \* 354-361
           [operation |-> "getCreditNote", respond |-> "formatResponse", wrap |-> "none",
            format |-> "arg", entityType |-> "creditNote", key |-> "", message |-> ""]
      [] tool = "xero_create_credit_note" ->   \* 381-401
           [operation |-> "createCreditNote", respond |-> "inline", wrap |-> "success",
            format |-> "json", entityType |-> "", key |-> "creditNote", message |-> "Credit note created"]
      [] tool = "xero_allocate_credit_note" ->   \* 419-433
           [operation |-> "allocateCreditNote", respond |-> "inline", wrap |-> "success",
            format |-> "json", entityType |-> "", key |-> "creditNote", message |-> "Credit note allocated"]
      [] tool = "xero_list_prepayments" ->   \* 449-456
           [operation |-> "listPrepayments", respond |-> "formatResponse", wrap |-> "none",
            format |-> "arg", entityType |-> "prepayments", key |-> "", message |-> ""]
      [] tool = "xero_allocate_prepayment" ->   \* 474-488
           [operation |-> "allocatePrepayment", respond |-> "inline", wrap |-> "success",
            format |-> "json", entityType |-> "", key |-> "prepayment", message |-> "Prepayment allocated"]
      [] tool = "xero_list_overpayments" ->   \* 504-511
           [operation |-> "listOverpayments", respond |-> "formatResponse", wrap |-> "none",
            format |-> "arg", entityType |-> "overpayments", key |-> "", message |-> ""]
      [] tool = "xero_allocate_overpayment" ->   \* 529-543
           [operation |-> "allocateOverpayment", respond |-> "inline", wrap |-> "success",
            format |-> "json", entityType |-> "", key |-> "overpayment", message |-> "Overpayment allocated"]
      [] tool = "xero_list_batch_payments" ->   \* 559-566
           [operation |-> "listBatchPayments", respond |-> "formatResponse", wrap |-> "none",
            format |-> "arg", entityType |-> "batchPayments", key |-> "", message |-> ""]

\* part_002 lines 592-777
registerInvoiceTools(tool, a) ==
    CASE tool = "xero_list_invoices" ->   \* 609-616
           [operation |-> "listInvoices", respond |-> "formatResponse", wrap |-> "none",
            format |-> "arg", entityType |-> "invoices", key |-> "", message |-> ""]
      [] tool = "xero_get_invoice" ->   \* 629-636
           [operation |-> "getInvoice", respond |-> "formatResponse", wrap |-> "none",
            format |-> "arg", entityType |-> "invoice", key |-> "", message |-> ""]
      [] tool = "xero_create_invoice" ->   \* 664-689
           [operation |-> "createInvoice", respond |-> "inline", wrap |-> "success",
            format |-> "json", entityType |-> "", key |-> "invoice", message |-> "Invoice created"]
      [] tool = "xero_update_invoice" ->   \* 709-723
           [operation |-> "updateInvoice", respond |-> "inline", wrap |-> "success",
            format |-> "json", entityType |-> "", key |-> "invoice", message |-> "Invoice updated"]
      [] tool = "xero_void_invoice" ->   \* 735-749
           [operation |-> "voidInvoice", respond |-> "inline", wrap |-> "success",
            format |-> "json", entityType |-> "", key |-> "invoice", message |-> "Invoice voided"]
      [] tool = "xero_delete_invoice" ->   \* 761-775
           [operation |-> "deleteInvoice", respond |-> "inline", wrap |-> "success",
            format |-> "json", entityType |-> "", key |-> "", message |-> "Invoice " \o a.id \o " deleted"]

\* part_003 lines 22-185
registerPurchaseOrderTools(tool, a) ==
    CASE tool = "xero_list_purchase_orders" ->   \* 39-46
           [operation |-> "listPurchaseOrders", respond |-> "formatResponse", wrap |-> "none",
            format |-> "arg", entityType |-> "purchaseOrders", key |-> "", message |-> ""]
      [] tool = "xero_get_purchase_order" ->   \* 59-66
           [operation |-> "getPurchaseOrder", respond |-> "formatResponse", wrap |-> "none",
            format |-> "arg", entityType |-> "purchaseOrder", key |-> "", message |-> ""]
      [] tool = "xero_create_purchase_order" ->   \* 97-123
           [operation |-> "createPurchaseOrder", respond |-> "inline", wrap |-> "success",
            format |-> "json", entityType |-> "", key |-> "order", message |-> "Purchase order created"]
      [] tool = "xero_update_purchase_order" ->   \* 143-157
           [operation |-> "updatePurchaseOrder", respond |-> "inline", wrap |-> "success",
            format |-> "json", entityType |-> "", key |-> "order", message |-> "Purchase order updated"]
      [] tool = "xero_delete_purchase_order" ->   \* 169-183
           [operation |-> "deletePurchaseOrder", respond |-> "inline", wrap |-> "success",
            format |-> "json", entityType |-> "", key |-> "", message |-> "Purchase order " \o a.id \o " deleted"]

\* part_003 lines 198-423
registerContactTools(tool, a) ==
    CASE tool = "xero_list_contacts" ->   \* 217-224
           [operation |-> "listContacts", respond |-> "formatResponse", wrap |-> "none",
            format |-> "arg", entityType |-> "contacts", key |-> "", message |-> ""]
      [] tool = "xero_get_contact" ->   \* 237-244
           [operation |-> "getContact", respond |-> "formatResponse", wrap |-> "none",
            format |-> "arg", entityType |-> "contact", key |-> "", message |-> ""]
      [] tool = "xero_create_contact" ->   \* 270-284
           [operation |-> "createContact", respond |-> "inline", wrap |-> "success",
            format |-> "json", entityType |-> "", key |-> "contact", message |-> "Contact created"]
      [] tool = "xero_update_contact" ->   \* 310-324
           [operation |-> "updateContact", respond |-> "inline", wrap |-> "success",
            format |-> "json", entityType |-> "", key |-> "contact", message |-> "Contact updated"]
      [] tool = "xero_archive_contact" ->   \* 336-350
           [operation |-> "archiveContact", respond |-> "inline", wrap |-> "success",
            format |-> "json", entityType |-> "", key |-> "contact", message |-> "Contact archived"]
      [] tool = "xero_list_contact_groups" ->   \* 360-367
           [operation |-> "listContactGroups", respond |-> "formatResponse", wrap |-> "itemsNoMore",
            format |-> "arg", entityType |-> "contactGroups", key |-> "", message |-> ""]
      [] tool = "xero_create_contact_group" ->   \* 379-393
           [operation |-> "createContactGroup", respond |-> "inline", wrap |-> "success",
            format |-> "json", entityType |-> "", key |-> "group", message |-> "Contact group created"]
      [] tool = "xero_add_contacts_to_group" ->   \* 407-421
           [operation |-> "addContactsToGroup", respond |-> "inline", wrap |-> "success",
            format |-> "json", entityType |-> "", key |-> "group", message |-> "Contacts added to group"]

\* part_003 lines 444-606
registerJournalTools(tool, a) ==
    CASE tool = "xero_list_journals" ->   \* 460-467
           [operation |-> "listJournals", respond |-> "formatResponse", wrap |-> "itemsPage",
            format |-> "arg", entityType |-> "journals", key |-> "", message |-> ""]
      [] tool = "xero_get_journal" ->   \* 480-487
           [operation |-> "getJournal", respond |-> "formatResponse", wrap |-> "none",
            format |-> "arg", entityType |-> "journal", key |-> "", message |-> ""]
      [] tool = "xero_list_manual_journals" ->   \* 505-512
           [operation |-> "listManualJournals", respond |-> "formatResponse", wrap |-> "none",
            format |-> "arg", entityType |-> "manualJournals", key |-> "", message |-> ""]
      [] tool = "xero_get_manual_journal" ->   \* 525-532
           [operation |-> "getManualJournal", respond |-> "formatResponse", wrap |-> "none",
            format |-> "arg", entityType |-> "manualJournal", key |-> "", message |-> ""]
      [] tool = "xero_create_manual_journal" ->   \* 552-572
           [operation |-> "createManualJournal", respond |-> "inline", wrap |-> "success",
            format |-> "json", entityType |-> "", key |-> "journal", message |-> "Manual journal created"]
      [] tool = "xero_update_manual_journal" ->   \* 590-604
           [operation |-> "updateManualJournal", respond |-> "inline", wrap |-> "success",
            format |-> "json", entityType |-> "", key |-> "journal", message |-> "Manual journal updated"]

ToolNames == {
    "xero_list_accounts",
    "xero_get_account",
    "xero_create_account",
    "xero_update_account",
    "xero_delete_account",
    "xero_list_bank_transactions",
    "xero_get_bank_transaction",
    "xero_create_bank_transaction",
    "xero_update_bank_transaction",
    "xero_list_bank_transfers",
    "xero_get_bank_transfer",
    "xero_create_bank_transfer",
    "xero_list_items",
    "xero_get_item",
    "xero_create_item",
    "xero_update_item",
    "xero_delete_item",
    "xero_test_connection",
    "xero_get_organisation",
    "xero_list_quotes",
    "xero_get_quote",
    "xero_create_quote",
    "xero_update_quote",
    "xero_delete_quote",
    "xero_get_balance_sheet",
    "xero_get_profit_and_loss",
    "xero_get_trial_balance",
    "xero_get_bank_summary",
    "xero_get_aged_receivables_by_contact",
    "xero_get_aged_payables_by_contact",
    "xero_get_budget_summary",
    "xero_get_executive_summary",
    "xero_get_report",
    "xero_list_linked_transactions",
    "xero_get_linked_transaction",
    "xero_create_linked_transaction",
    "xero_update_linked_transaction",
    "xero_delete_linked_transaction",
    "xero_list_tracking_categories",
    "xero_get_tracking_category",
    "xero_create_tracking_category",
    "xero_update_tracking_category",
    "xero_delete_tracking_category",
    "xero_create_tracking_option",
    "xero_update_tracking_option",
    "xero_delete_tracking_option",
    "xero_list_tax_rates",
    "xero_get_tax_rate",
    "xero_create_tax_rate",
    "xero_update_tax_rate",
    "xero_list_currencies",
    "xero_create_currency",
    "xero_list_branding_themes",
    "xero_get_branding_theme",
    "xero_list_users",
    "xero_get_user",
    "xero_list_repeating_invoices",
    "xero_get_repeating_invoice",
    "xero_create_repeating_invoice",
    "xero_update_repeating_invoice",
    "xero_delete_repeating_invoice",
    "xero_list_payments",
    "xero_get_payment",
    "xero_create_payment",
    "xero_delete_payment",
    "xero_list_credit_notes",
    "xero_get_credit_note",
    "xero_create_credit_note",
    "xero_allocate_credit_note",
    "xero_list_prepayments",
    "xero_allocate_prepayment",
    "xero_list_overpayments",
    "xero_allocate_overpayment",
    "xero_list_batch_payments",
    "xero_list_invoices",
    "xero_get_invoice",
    "xero_create_invoice",
    "xero_update_invoice",
    "xero_void_invoice",
    "xero_delete_invoice",
    "xero_list_purchase_orders",
    "xero_get_purchase_order",
    "xero_create_purchase_order",
    "xero_update_purchase_order",
    "xero_delete_purchase_order",
    "xero_list_contacts",
    "xero_get_contact",
    "xero_create_contact",
    "xero_update_contact",
    "xero_archive_contact",
    "xero_list_contact_groups",
    "xero_create_contact_group",
    "xero_add_contacts_to_group",
    "xero_list_journals",
    "xero_get_journal",
    "xero_list_manual_journals",
    "xero_get_manual_journal",
    "xero_create_manual_journal",
    "xero_update_manual_journal"}

\* the handler registered under a tool name
Tool(tool, a) ==
    CASE tool \in {"xero_list_accounts", "xero_get_account", "xero_create_account", "xero_update_account", "xero_delete_account"} ->
           registerAccountTools(tool, a)
      [] tool \in {"xero_list_bank_transactions", "xero_get_bank_transaction", "xero_create_bank_transaction", "xero_update_bank_transaction", "xero_list_bank_transfers", "xero_get_bank_transfer", "xero_create_bank_transfer"} ->
           registerBankingTools(tool, a)
      [] tool \in {"xero_list_items", "xero_get_item", "xero_create_item", "xero_update_item", "xero_delete_item"} ->
           registerItemTools(tool, a)
      [] tool \in {"xero_test_connection", "xero_get_organisation"} ->
           registerOrganisationTools(tool, a)
      [] tool \in {"xero_list_quotes", "xero_get_quote", "xero_create_quote", "xero_update_quote", "xero_delete_quote"} ->
           registerQuoteTools(tool, a)
      [] tool \in {"xero_get_balance_sheet", "xero_get_profit_and_loss", "xero_get_trial_balance", "xero_get_bank_summary", "xero_get_aged_receivables_by_contact", "xero_get_aged_payables_by_contact", "xero_get_budget_summary", "xero_get_executive_summary", "xero_get_report"} ->
           registerReportTools(tool, a)
      [] tool \in {"xero_list_linked_transactions", "xero_get_linked_transaction", "xero_create_linked_transaction", "xero_update_linked_transaction", "xero_delete_linked_transaction"} ->
           registerLinkedTransactionTools(tool, a)
      [] tool \in {"xero_list_tracking_categories", "xero_get_tracking_category", "xero_create_tracking_category", "xero_update_tracking_category", "xero_delete_tracking_category", "xero_create_tracking_option", "xero_update_tracking_option", "xero_delete_tracking_option", "xero_list_tax_rates", "xero_get_tax_rate", "xero_create_tax_rate", "xero_update_tax_rate", "xero_list_currencies", "xero_create_currency", "xero_list_branding_themes", "xero_get_branding_theme", "xero_list_users", "xero_get_user"} ->
           registerSettingsTools(tool, a)
      [] tool \in {"xero_list_repeating_invoices", "xero_get_repeating_invoice", "xero_create_repeating_invoice", "xero_update_repeating_invoice", "xero_delete_repeating_invoice"} ->
           registerRepeatingInvoiceTools(tool, a)
      [] tool \in {"xero_list_payments", "xero_get_payment", "xero_create_payment", "xero_delete_payment", "xero_list_credit_notes", "xero_get_credit_note", "xero_create_credit_note", "xero_allocate_credit_note", "xero_list_prepayments", "xero_allocate_prepayment", "xero_list_overpayments", "xero_allocate_overpayment", "xero_list_batch_payments"} ->
           registerPaymentTools(tool, a)
      [] tool \in {"xero_list_invoices", "xero_get_invoice", "xero_create_invoice", "xero_update_invoice", "xero_void_invoice", "xero_delete_invoice"} ->
           registerInvoiceTools(tool, a)
      [] tool \in {"xero_list_purchase_orders", "xero_get_purchase_order", "xero_create_purchase_order", "xero_update_purchase_order", "xero_delete_purchase_order"} ->
           registerPurchaseOrderTools(tool, a)
      [] tool \in {"xero_list_contacts", "xero_get_contact", "xero_create_contact", "xero_update_contact", "xero_archive_contact", "xero_list_contact_groups", "xero_create_contact_group", "xero_add_contacts_to_group"} ->
           registerContactTools(tool, a)
      [] tool \in {"xero_list_journals", "xero_get_journal", "xero_list_manual_journals", "xero_get_manual_journal", "xero_create_manual_journal", "xero_update_manual_journal"} ->
           registerJournalTools(tool, a)

\* the data a formatResponse handler passes on, built from the operation's result
ToolData(t, result) ==
    LET length == IF TypeOf(result) = "array" THEN Len(Val(result)) ELSE 0
    IN CASE t.wrap = "none" -> result
         [] t.wrap = "items" ->
              Obj([items |-> result, count |-> Num(length)])
         [] t.wrap = "itemsNoMore" ->
              Obj([items |-> result, count |-> Num(length), hasMore |-> Bool(FALSE)])
         [] t.wrap = "itemsPage" ->
              Obj([items |-> result, count |-> Num(length),
                   hasMore |-> Bool(length >= PageSize)])
         [] t.wrap = "success" ->
              Obj([success |-> Bool(TRUE), message |-> Str(t.message)]
                  @@ (IF t.key # "" THEN t.key :> result ELSE Empty))

\* the try block of a handler after the operation resolved with result
ToolPayload(t, result, format) ==
    IF t.respond = "formatResponse"
    THEN formatResponse(ToolData(t, result), IF t.format = "arg" THEN format ELSE t.format,
                        t.entityType)
    ELSE ToolResponse(JSONstringify(ToolData(t, result)), FALSE)

\* a handler that builds its payload after the try block: an exception thrown
\* while rendering escapes
ToolHandlerUnguarded(t, opOut, format) ==
    IF opOut.kind = "rejected" THEN Resolved(formatError(opOut.error))
    ELSE LET payload == ToolPayload(t, opOut.value, format)
         IN IF payload = Thrown THEN Rejected(TypeError)
            ELSE Resolved(payload)

\* the whole handler: the rejection of the operation and an exception thrown
\* while the payload is built both land in the catch
ToolHandler(t, opOut, format) ==
    IF opOut.kind = "rejected" THEN Resolved(formatError(opOut.error))
    ELSE LET payload == ToolPayload(t, opOut.value, format)
         IN IF payload = Thrown THEN Resolved(formatError(TypeError))
            ELSE Resolved(payload)

-----------------------------------------------------------------------------
(* The inputs a run draws: credentials, arguments and HTTP responses *)

\* TenantCredentials as parseTenantCredentials reads them from the inbound
\* request: a missing header gives '' (accessToken, tenantId) or undefined (baseUrl)
CredentialValues == {Str(""), Str("tok")}
TenantValues == {Str(""), Str("tenant-1")}
BaseUrlValues == {Undefined, Str("https://proxy.example/api")}

Credentials ==
    [accessToken : CredentialValues, tenantId : TenantValues, baseUrl : BaseUrlValues]

ValidCredentials(creds) == Truthy(creds.accessToken) /\ Truthy(creds.tenantId)

SampleLine == Obj([description |-> Str("Widget"), quantity |-> Num(2), unitAmount |-> Num(5)])

\* a partial entity with fields of several kinds; a mapper reads those it knows
SampleInput ==
    Obj([name |-> Str("Acme"), code |-> Str("200"), type |-> Str("ACCREC"),
         contact |-> Obj([contactId |-> Str("c1")]),
         lineItems |-> Arr(<<SampleLine>>),
         isSupplier |-> Bool(FALSE), isSold |-> Bool(FALSE),
         invoice |-> Obj([invoiceId |-> Str("i1")]),
         account |-> Obj([accountId |-> Str("a1")]),
         fromBankAccount |-> Obj([accountId |-> Str("a1")]),
         toBankAccount |-> Obj([accountId |-> Str("a2")]),
         invoiceId |-> Str("i1"), amount |-> Num(5), date |-> Str("2024-01-01"),
         sourceTransactionId |-> Str("s1"), contactId |-> Str("c1"),
         description |-> Str("Euro")])

SampleParams ==
    Obj([page |-> Num(2), where |-> Str("Status==\"ACTIVE\""), date |-> Str("2024-01-01"),
         contactId |-> Str("c1"), paymentsOnly |-> Bool(FALSE)])

NameOperations ==
    {"createContactGroup", "updateContactGroup", "createTrackingCategory",
     "updateTrackingCategory", "createTrackingOption", "updateTrackingOption"}

AllocateOperations == {"allocateCreditNote", "allocatePrepayment", "allocateOverpayment"}

\* the amounts an allocation is tried with: nothing, the amount of the sample
\* payment, and far more than any credit the samples hold
Amounts == {Num(0), Num(5), Num(1000000)}

\* the argument lists of an operation that the run tries
ArgsOf(operation) ==
    LET args(i, p) == [id |-> "id1", id2 |-> "id2", input |-> i, params |-> p]
    IN CASE operation \in NameOperations -> {args(Str("West"), Undefined)}
         [] operation \in AllocateOperations ->
              {args(Obj(Empty), Undefined)} \cup
              {args(Obj([invoiceId |-> Str("i1"), amount |-> amount, date |-> date]), Undefined) :
                 <<amount, date>> \in Amounts \X {Undefined, Str("2024-01-01")}}
         [] operation = "addContactsToGroup" -> {args(Arr(<<Str("c1"), Str("c2")>>), Undefined)}
         [] operation = "getReport" ->
              {args(Undefined, Undefined),
               args(Undefined, Record(<<<<"date", "2024-01-01">>>>))}
         [] operation \in {"getAgedReceivablesByContact", "getAgedPayablesByContact"} ->
              {args(Undefined, SampleParams)}
         [] OTHER -> {args(Obj(Empty), Undefined), args(SampleInput, SampleParams)}

\* a well-formed wire record with fields of several kinds
SampleWire ==
    Obj([ContactID |-> Str("c1"), Name |-> Str("Acme"), InvoiceID |-> Str("i1"),
         InvoiceNumber |-> Str("INV-1"), Status |-> Str("AUTHORISED"), Total |-> Num(5),
         Code |-> Str("200"), PaymentID |-> Str("p1"), Amount |-> Num(5),
         Contact |-> Obj([ContactID |-> Str("c1"), Name |-> Str("Acme")]),
         Contacts |-> Arr(<<Obj([ContactID |-> Str("c1")])>>),
         LineItems |-> Arr(<<Obj([LineItemID |-> Str("l1"), Quantity |-> Num(2)])>>),
         Phones |-> Arr(<<Obj([PhoneNumber |-> Str("555")])>>)])

\* a record the remote should not send: Phones is not a list
MalformedWire == Obj([ContactID |-> Str("c2"), Phones |-> Str("n/a")])

\* the decoded bodies of 2xx responses tried for an operation reading data[key]
SuccessBodies(key) ==
    {InvalidJson, Obj(Empty)} \cup
    (IF key = "" THEN {}
     ELSE {Obj(key :> Arr(<<>>)), Obj(key :> Arr(<<Obj(Empty)>>)),
           Obj(key :> Arr(<<SampleWire>>)), Obj(key :> Arr(<<MalformedWire, SampleWire>>))})

HttpResponse(status, retryAfter, body) ==
    [status |-> status, retryAfter |-> retryAfter, body |-> body]

\* the body of a rejected allocation: two elements, a validation error each
ValidationBody ==
    Obj([Elements |-> Arr(<<
            Obj([ValidationErrors |->
                   Arr(<<Obj([Message |-> Str("Amount exceeds remaining credit")])>>)]),
            Obj([ValidationErrors |->
                   Arr(<<Obj([Message |-> Str("Invoice is not awaiting payment")])>>)])>>)])

\* the responses the remote may give to the request of an operation
Responses(key) ==
    {HttpResponse(429, NoHeader, InvalidJson),
     HttpResponse(429, Header(<<"3", "0">>), InvalidJson),
     HttpResponse(401, NoHeader, InvalidJson),
     HttpResponse(403, NoHeader, InvalidJson),
     HttpResponse(404, NoHeader, Obj([Message |-> Str("Not found")])),
     HttpResponse(400, NoHeader, ValidationBody),
     HttpResponse(500, NoHeader, InvalidJson),
     HttpResponse(204, NoHeader, InvalidJson)}
    \cup {HttpResponse(200, NoHeader, b) : b \in SuccessBodies(key)}

NoResponse == HttpResponse(0, NoHeader, Undefined)
NoArgs == [id |-> "", id2 |-> "", input |-> Undefined, params |-> Undefined]
NoCall == [tool |-> "none", operation |-> "none", args |-> NoArgs, format |-> "json"]
NoEntity == [kind |-> "none", input |-> Undefined]

\* fetch rejects when the network fails
NetworkError == [name |-> "TypeError", message |-> Str("fetch failed"), statusCode |-> 0,
                 retryAfterSeconds |-> Undefined]

\* the operations no tool reaches; other callers of the client invoke them
ToolOperations == {Tool(tool, NoArgs).operation : tool \in ToolNames}
DirectOperations == OperationNames \ ToolOperations

Formats == {"json", "markdown"}

-----------------------------------------------------------------------------
(* The lifecycle of one inbound call: a fresh client, one operation, at     *)
(* most one fetch, the handler's return.                                    *)

Init ==
    /\ credentials \in Credentials
    /\ baseUrl = ClientBaseUrl(credentials)
    /\ pc = "idle"
    /\ call = NoCall
    /\ fetches = <<>>
    /\ response = NoResponse
    /\ reqOutcome = Pending
    /\ opOutcome = Pending
    /\ toolResult = Pending
    /\ entity = NoEntity
    /\ wire = Undefined

\* Invoke with a check of the amount before the request: an allocation of
\* more than the credit the client believes to remain is refused locally
InvokeCheckingAmount(tool, operation, a, format) ==
    LET d == Operation(operation, a)
        auth == getAuthHeaders(credentials)
        excess == CrmApiError(Str("Amount exceeds remaining credit"), 400)
        refused == /\ operation \in AllocateOperations
                   /\ TypeOf(Prop(a.input, "amount")) = "number"
                   /\ Val(Prop(a.input, "amount")) > 5
    IN /\ pc = "idle"
       /\ call' = [tool |-> tool, operation |-> operation, args |-> a, format |-> format]
       /\ IF auth.threw \/ refused
          THEN /\ fetches' = fetches
               /\ reqOutcome' = Rejected(IF auth.threw THEN auth.error ELSE excess)
               /\ opOutcome' = OperationResult(d, Rejected(IF auth.threw THEN auth.error ELSE excess))
               /\ pc' = "settled"
          ELSE /\ fetches' = Append(fetches, [base |-> baseUrl, path |-> d.path,
                                              query |-> d.query, method |-> d.method,
                                              headers |-> auth.headers, body |-> d.body])
               /\ reqOutcome' = Pending
               /\ opOutcome' = Pending
               /\ pc' = "awaiting"
       /\ UNCHANGED <<credentials, baseUrl, response, toolResult, entity, wire>>

\* the operation runs up to `await fetch(url, { ...options, headers: {
\* ...this.getAuthHeaders(), ... } })`: the headers are built, and may throw,
\* while the argument of fetch is evaluated
Invoke(tool, operation, a, format) ==
    LET d == Operation(operation, a)
        auth == getAuthHeaders(credentials)
    IN /\ pc = "idle"
       /\ call' = [tool |-> tool, operation |-> operation, args |-> a, format |-> format]
       /\ IF auth.threw
          THEN /\ fetches' = fetches
               /\ reqOutcome' = Rejected(auth.error)
               /\ opOutcome' = OperationResult(d, Rejected(auth.error))
               /\ pc' = "settled"
          ELSE /\ fetches' = Append(fetches, [base |-> baseUrl, path |-> d.path,
                                              query |-> d.query, method |-> d.method,
                                              headers |-> auth.headers, body |-> d.body])
               /\ reqOutcome' = Pending
               /\ opOutcome' = Pending
               /\ pc' = "awaiting"
       /\ UNCHANGED <<credentials, baseUrl, response, toolResult, entity, wire>>

\* a tool handler is invoked and calls its client operation
CallTool(tool, a, format) ==
    /\ tool \in ToolNames
    /\ a \in ArgsOf(Tool(tool, NoArgs).operation)
    /\ Tool(tool, NoArgs).format = "json" => format = "json"
    /\ Invoke(tool, Tool(tool, a).operation, a, format)

\* a client operation is called by other code than a tool
CallOperation(operation, a) ==
    /\ operation \in DirectOperations
    /\ a \in ArgsOf(operation)
    /\ Invoke("none", operation, a, "json")

\* what the remote may answer to the request in flight
PossibleResponses ==
    IF pc = "awaiting" THEN Responses(Operation(call.operation, call.args).key) ELSE {}

\* request() with a retry: after a 429 the same request is sent once more
RespondRetrying(resp) ==
    /\ pc = "awaiting"
    /\ resp \in PossibleResponses
    /\ response' = resp
    /\ IF resp.status = 429 /\ Len(fetches) < 2
       THEN /\ fetches' = Append(fetches, fetches[1])
            /\ UNCHANGED <<reqOutcome, opOutcome, pc>>
       ELSE /\ reqOutcome' = request(resp)
            /\ opOutcome' = OperationResult(Operation(call.operation, call.args), request(resp))
            /\ pc' = "settled"
            /\ fetches' = fetches
    /\ UNCHANGED <<credentials, baseUrl, call, toolResult, entity, wire>>

\* Respond for a client that forgets its access token when the remote
\* answers 401
RespondDroppingToken(resp) ==
    /\ pc = "awaiting"
    /\ resp \in PossibleResponses
    /\ response' = resp
    /\ reqOutcome' = request(resp)
    /\ opOutcome' = OperationResult(Operation(call.operation, call.args), request(resp))
    /\ pc' = "settled"
    /\ credentials' = IF resp.status = 401
                      THEN [credentials EXCEPT !.accessToken = Str("")]
                      ELSE credentials
    /\ UNCHANGED <<baseUrl, call, fetches, toolResult, entity, wire>>

\* fetch resolves: request() classifies the response and the operation
\* interprets what request() settled with
Respond(resp) ==
    /\ pc = "awaiting"
    /\ resp \in PossibleResponses
    /\ response' = resp
    /\ reqOutcome' = request(resp)
    /\ opOutcome' = OperationResult(Operation(call.operation, call.args), request(resp))
    /\ pc' = "settled"
    /\ UNCHANGED <<credentials, baseUrl, call, fetches, toolResult, entity, wire>>

\* fetch rejects: the rejection passes through request()
FetchRejects ==
    /\ pc = "awaiting"
    /\ reqOutcome' = Rejected(NetworkError)
    /\ opOutcome' = OperationResult(Operation(call.operation, call.args), Rejected(NetworkError))
    /\ pc' = "settled"
    /\ UNCHANGED <<credentials, baseUrl, call, fetches, response, toolResult, entity, wire>>

\* the tool handler returns
HandlerReturn ==
    /\ pc = "settled"
    /\ call.tool # "none"
    /\ toolResult' = ToolHandler(Tool(call.tool, call.args), opOutcome, call.format)
    /\ pc' = "returned"
    /\ UNCHANGED <<credentials, baseUrl, call, fetches, response, reqOutcome, opOutcome,
                   entity, wire>>

\* the next inbound call gets a client of its own
NextCall(creds) ==
    /\ pc = "returned" \/ (pc = "settled" /\ call.tool = "none")
    /\ credentials' = creds
    /\ baseUrl' = ClientBaseUrl(creds)
    /\ pc' = "idle"
    /\ call' = NoCall
    /\ fetches' = <<>>
    /\ response' = NoResponse
    /\ reqOutcome' = Pending
    /\ opOutcome' = Pending
    /\ toolResult' = Pending
    /\ UNCHANGED <<entity, wire>>

Next ==
    \/ \E tool \in ToolNames, format \in Formats :
          \E a \in ArgsOf(Tool(tool, NoArgs).operation) : CallTool(tool, a, format)
    \/ \E operation \in DirectOperations : \E a \in ArgsOf(operation) : CallOperation(operation, a)
    \/ \E resp \in PossibleResponses : Respond(resp)
    \/ FetchRejects
    \/ HandlerReturn
    \/ \E creds \in Credentials : NextCall(creds)

Spec == Init /\ [][Next]_vars

-----------------------------------------------------------------------------
(* request() on its own: the response is drawn from a wider set than the    *)
(* lifecycle tries, and one step classifies it.                             *)

MaxHeaderLen == 2
MaxElements == 2

HeaderAlphabet == {"3", "0", "x", "-"}

RECURSIVE SeqsUpTo(_, _)
SeqsUpTo(S, n) ==
    IF n = 0 THEN {<<>>}
    ELSE LET shorter == SeqsUpTo(S, n - 1)
         IN shorter \cup {Append(q, x) : q \in shorter, x \in S}

\* Retry-After: absent, or any text over the alphabet
RetryAfterHeaders == {NoHeader} \cup {Header(h) : h \in SeqsUpTo(HeaderAlphabet, MaxHeaderLen)}

ValidationError(m) == Obj([Message |-> Str(m)])

\* one entry of Elements
ElementSamples ==
    {Obj(Empty),
     Null,
     Obj([ValidationErrors |-> Arr(<<>>)]),
     Obj([ValidationErrors |-> Arr(<<ValidationError("Name required")>>)]),
     Obj([ValidationErrors |-> Arr(<<ValidationError("Bad date"), ValidationError("Bad total")>>)]),
     Obj([ValidationErrors |-> Arr(<<Null>>)]),
     Obj([ValidationErrors |-> Str("bad")])}

MessageSamples == {Undefined, Str(""), Str("Bad request")}

ElementsSamples ==
    {Undefined, Str("bad")} \cup {Arr(els) : els \in SeqsUpTo(ElementSamples, MaxElements)}

\* the bodies of error responses: text that is not JSON, JSON that is not an
\* object, and objects with or without Message and Elements
ErrorBodies ==
    {InvalidJson, Null, Str("Internal Server Error")} \cup
    {Obj((IF m # Undefined THEN "Message" :> m ELSE Empty)
         @@ (IF els # Undefined THEN "Elements" :> els ELSE Empty)) :
        m \in MessageSamples, els \in ElementsSamples}

TransportResponses ==
    {HttpResponse(429, h, InvalidJson) : h \in RetryAfterHeaders}
    \cup {HttpResponse(st, NoHeader, b) : st \in {401, 403}, b \in {InvalidJson, Obj(Empty)}}
    \cup {HttpResponse(st, NoHeader, b) : st \in {400, 404, 500}, b \in ErrorBodies}
    \cup {HttpResponse(st, NoHeader, b) :
             st \in {200, 201, 204},
             b \in {InvalidJson, Obj(Empty), Obj([Contacts |-> Arr(<<SampleWire>>)])}}

TransportInit ==
    /\ response \in TransportResponses
    /\ credentials = [accessToken |-> Str("tok"), tenantId |-> Str("tenant-1"),
                      baseUrl |-> Undefined]
    /\ baseUrl = ClientBaseUrl(credentials)
    /\ pc = "received"
    /\ call = NoCall
    /\ fetches = <<>>
    /\ reqOutcome = Pending
    /\ opOutcome = Pending
    /\ toolResult = Pending
    /\ entity = NoEntity
    /\ wire = Undefined

\* request() from `if (response.status === 429)` to its end
Classify ==
    /\ pc = "received"
    /\ reqOutcome' = request(response)
    /\ pc' = "classified"
    /\ UNCHANGED <<credentials, baseUrl, call, fetches, response, opOutcome, toolResult,
                   entity, wire>>

TransportNext == Classify

TransportSpec == TransportInit /\ [][TransportNext]_vars

-----------------------------------------------------------------------------
(* toWire mappers by name, and the fields each one handles: the domain      *)
(* field it reads, the declared type of that field (types/entities.ts) and  *)
(* the wire key it writes.                                                  *)

ToWireKinds ==
    {"mapContactToXero", "mapAccountToXero", "mapInvoiceToXero",
     "mapCreditNoteToXero", "mapPaymentToXero", "mapBankTransactionToXero",
     "mapItemToXero", "mapPurchaseOrderToXero", "mapQuoteToXero",
     "mapManualJournalToXero", "mapBatchPaymentToXero", "mapTaxRateToXero",
     "mapRepeatingInvoiceToXero"}

ToWire(kind, input) ==
    CASE kind = "mapContactToXero" -> mapContactToXero(input)
      [] kind = "mapAccountToXero" -> mapAccountToXero(input)
      [] kind = "mapInvoiceToXero" -> mapInvoiceToXero(input)
      [] kind = "mapCreditNoteToXero" -> mapCreditNoteToXero(input)
      [] kind = "mapPaymentToXero" -> mapPaymentToXero(input)
      [] kind = "mapBankTransactionToXero" -> mapBankTransactionToXero(input)
      [] kind = "mapItemToXero" -> mapItemToXero(input)
      [] kind = "mapPurchaseOrderToXero" -> mapPurchaseOrderToXero(input)
      [] kind = "mapQuoteToXero" -> mapQuoteToXero(input)
      [] kind = "mapManualJournalToXero" -> mapManualJournalToXero(input)
      [] kind = "mapBatchPaymentToXero" -> mapBatchPaymentToXero(input)
      [] kind = "mapTaxRateToXero" -> mapTaxRateToXero(input)
      [] kind = "mapRepeatingInvoiceToXero" -> mapRepeatingInvoiceToXero(input)

PatchField(field, type, key) == [field |-> field, type |-> type, key |-> key]

PatchFields(kind) ==
    CASE kind = "mapContactToXero" ->   \* XeroContact
           {PatchField("name", "string", "Name"),
            PatchField("firstName", "string", "FirstName"),
            PatchField("lastName", "string", "LastName"),
            PatchField("emailAddress", "string", "EmailAddress"),
            PatchField("contactNumber", "string", "ContactNumber"),
            PatchField("accountNumber", "string", "AccountNumber"),
            PatchField("contactStatus", "enum", "ContactStatus"),
            PatchField("bankAccountDetails", "string", "BankAccountDetails"),
            PatchField("taxNumber", "string", "TaxNumber"),
            PatchField("accountsReceivableTaxType", "string", "AccountsReceivableTaxType"),
            PatchField("accountsPayableTaxType", "string", "AccountsPayableTaxType"),
            PatchField("isSupplier", "boolean", "IsSupplier"),
            PatchField("isCustomer", "boolean", "IsCustomer"),
            PatchField("defaultCurrency", "string", "DefaultCurrency"),
            PatchField("addresses", "array", "Addresses"),
            PatchField("phones", "array", "Phones"),
            PatchField("contactPersons", "array", "ContactPersons"),
            PatchField("paymentTerms", "object", "PaymentTerms")}
      [] kind = "mapAccountToXero" ->   \* XeroAccount
           {PatchField("code", "string", "Code"),
            PatchField("name", "string", "Name"),
            PatchField("type", "enum", "Type"),
            PatchField("status", "enum", "Status"),
            PatchField("description", "string", "Description"),
            PatchField("taxType", "string", "TaxType"),
            PatchField("enablePaymentsToAccount", "boolean", "EnablePaymentsToAccount"),
            PatchField("showInExpenseClaims", "boolean", "ShowInExpenseClaims"),
            PatchField("bankAccountNumber", "string", "BankAccountNumber"),
            PatchField("bankAccountType", "string", "BankAccountType"),
            PatchField("currencyCode", "string", "CurrencyCode"),
            PatchField("addToWatchlist", "boolean", "AddToWatchlist")}
      [] kind = "mapInvoiceToXero" ->   \* XeroInvoice
           {PatchField("type", "enum", "Type"),
            PatchField("contact", "object", "Contact"),
            PatchField("date", "string", "Date"),
            PatchField("dueDate", "string", "DueDate"),
            PatchField("lineAmountTypes", "enum", "LineAmountTypes"),
            PatchField("invoiceNumber", "string", "InvoiceNumber"),
            PatchField("reference", "string", "Reference"),
            PatchField("currencyCode", "string", "CurrencyCode"),
            PatchField("status", "enum", "Status"),
            PatchField("brandingThemeId", "string", "BrandingThemeID"),
            PatchField("lineItems", "array", "LineItems")}
      [] kind = "mapCreditNoteToXero" ->   \* XeroCreditNote
           {PatchField("type", "enum", "Type"),
            PatchField("contact", "object", "Contact"),
            PatchField("date", "string", "Date"),
            PatchField("status", "enum", "Status"),
            PatchField("reference", "string", "Reference"),
            PatchField("currencyCode", "string", "CurrencyCode"),
            PatchField("brandingThemeId", "string", "BrandingThemeID"),
            PatchField("lineItems", "array", "LineItems")}
      [] kind = "mapPaymentToXero" ->   \* XeroPayment
           {PatchField("invoice", "object", "Invoice"),
            PatchField("account", "object", "Account"),
            PatchField("date", "string", "Date"),
            PatchField("amount", "number", "Amount"),
            PatchField("reference", "string", "Reference"),
            PatchField("isReconciled", "boolean", "IsReconciled")}
      [] kind = "mapBankTransactionToXero" ->   \* XeroBankTransaction
           {PatchField("type", "enum", "Type"),
            PatchField("contact", "object", "Contact"),
            PatchField("bankAccount", "object", "BankAccount"),
            PatchField("date", "string", "Date"),
            PatchField("reference", "string", "Reference"),
            PatchField("currencyCode", "string", "CurrencyCode"),
            PatchField("lineItems", "array", "LineItems")}
      [] kind = "mapItemToXero" ->   \* XeroItem
           {PatchField("code", "string", "Code"),
            PatchField("name", "string", "Name"),
            PatchField("description", "string", "Description"),
            PatchField("purchaseDescription", "string", "PurchaseDescription"),
            PatchField("purchaseDetails", "object", "PurchaseDetails"),
            PatchField("salesDetails", "object", "SalesDetails"),
            PatchField("isTrackedAsInventory", "boolean", "IsTrackedAsInventory"),
            PatchField("inventoryAssetAccountCode", "string", "InventoryAssetAccountCode"),
            PatchField("isSold", "boolean", "IsSold"),
            PatchField("isPurchased", "boolean", "IsPurchased")}
      [] kind = "mapPurchaseOrderToXero" ->   \* XeroPurchaseOrder
           {PatchField("contact", "object", "Contact"),
            PatchField("date", "string", "Date"),
            PatchField("deliveryDate", "string", "DeliveryDate"),
            PatchField("status", "enum", "Status"),
            PatchField("reference", "string", "Reference"),
            PatchField("deliveryAddress", "string", "DeliveryAddress"),
            PatchField("attentionTo", "string", "AttentionTo"),
            PatchField("telephone", "string", "Telephone"),
            PatchField("deliveryInstructions", "string", "DeliveryInstructions"),
            PatchField("currencyCode", "string", "CurrencyCode"),
            PatchField("lineItems", "array", "LineItems")}
      [] kind = "mapQuoteToXero" ->   \* XeroQuote
           {PatchField("contact", "object", "Contact"),
            PatchField("date", "string", "Date"),
            PatchField("expiryDate", "string", "ExpiryDate"),
            PatchField("status", "enum", "Status"),
            PatchField("reference", "string", "Reference"),
            PatchField("title", "string", "Title"),
            PatchField("summary", "string", "Summary"),
            PatchField("terms", "string", "Terms"),
            PatchField("currencyCode", "string", "CurrencyCode"),
            PatchField("brandingThemeId", "string", "BrandingThemeID"),
            PatchField("lineItems", "array", "LineItems")}
      [] kind = "mapManualJournalToXero" ->   \* XeroManualJournal
           {PatchField("narration", "string", "Narration"),
            PatchField("date", "string", "Date"),
            PatchField("status", "enum", "Status"),
            PatchField("lineAmountTypes", "enum", "LineAmountTypes"),
            PatchField("showOnCashBasisReports", "boolean", "ShowOnCashBasisReports"),
            PatchField("journalLines", "array", "JournalLines")}
      [] kind = "mapBatchPaymentToXero" ->   \* XeroBatchPayment
           {PatchField("account", "object", "Account"),
            PatchField("date", "string", "Date"),
            PatchField("particulars", "string", "Particulars"),
            PatchField("code", "string", "Code"),
            PatchField("reference", "string", "Reference"),
            PatchField("payments", "array", "Payments")}
      [] kind = "mapTaxRateToXero" ->   \* XeroTaxRate
           {PatchField("name", "string", "Name"),
            PatchField("taxType", "string", "TaxType"),
            PatchField("status", "enum", "Status"),
            PatchField("reportTaxType", "enum", "ReportTaxType"),
            PatchField("taxComponents", "array", "TaxComponents")}
      [] kind = "mapRepeatingInvoiceToXero" ->   \* XeroRepeatingInvoice
           {PatchField("type", "enum", "Type"),
            PatchField("contact", "object", "Contact"),
            PatchField("reference", "string", "Reference"),
            PatchField("status", "enum", "Status"),
            PatchField("lineAmountTypes", "enum", "LineAmountTypes"),
            PatchField("currencyCode", "string", "CurrencyCode"),
            PatchField("brandingThemeId", "string", "BrandingThemeID"),
            PatchField("approvedForSending", "boolean", "ApprovedForSending"),
            PatchField("sendCopy", "boolean", "SendCopy"),
            PatchField("markAsSent", "boolean", "MarkAsSent"),
            PatchField("includePdf", "boolean", "IncludePDF"),
            PatchField("schedule", "object", "Schedule"),
            PatchField("lineItems", "array", "LineItems")}
      [] kind = "updateLinkedTransaction" ->   \* the literal at lines 2092-2098
           {PatchField("sourceTransactionId", "string", "SourceTransactionID"),
            PatchField("sourceLineItemId", "string", "SourceLineItemID"),
            PatchField("contactId", "string", "ContactID"),
            PatchField("targetTransactionId", "string", "TargetTransactionID"),
            PatchField("targetLineItemId", "string", "TargetLineItemID")}
      [] kind \in {"updateContactGroup", "updateTrackingCategory", "updateTrackingOption"} ->
           {PatchField("name", "string", "Name")}

\* the update operations and what builds the entity in their body: a toWire
\* mapper, or the operation's own object literal
UpdateKind(operation) ==
    CASE operation = "updateContact" -> "mapContactToXero"
      [] operation = "updateAccount" -> "mapAccountToXero"
      [] operation = "updateInvoice" -> "mapInvoiceToXero"
      [] operation = "updateCreditNote" -> "mapCreditNoteToXero"
      [] operation = "updateBankTransaction" -> "mapBankTransactionToXero"
      [] operation = "updateItem" -> "mapItemToXero"
      [] operation = "updatePurchaseOrder" -> "mapPurchaseOrderToXero"
      [] operation = "updateQuote" -> "mapQuoteToXero"
      [] operation = "updateManualJournal" -> "mapManualJournalToXero"
      [] operation = "updateTaxRate" -> "mapTaxRateToXero"
      [] operation = "updateRepeatingInvoice" -> "mapRepeatingInvoiceToXero"
      [] operation \in {"updateLinkedTransaction", "updateContactGroup",
                        "updateTrackingCategory", "updateTrackingOption"} -> operation

UpdateOperations ==
    {"updateContact", "updateAccount", "updateInvoice", "updateCreditNote",
     "updateBankTransaction", "updateItem", "updatePurchaseOrder", "updateQuote",
     "updateManualJournal", "updateTaxRate", "updateRepeatingInvoice",
     "updateLinkedTransaction", "updateContactGroup", "updateTrackingCategory",
     "updateTrackingOption"}

EntityKinds == ToWireKinds \cup {UpdateKind(operation) : operation \in UpdateOperations}

\* the key under which updateInvoice and updateBankTransaction repeat the id
\* argument inside the entity
IdentityKeys == {"InvoiceID", "BankTransactionID"}

-----------------------------------------------------------------------------
(* The mappers on their own: a partial entity is drawn, then mapped by      *)
(* toWire or sent by an update operation to a remote that applies the keys  *)
(* it receives.                                                             *)

MaxSupplied == 2

RefSample ==
    Obj([contactId |-> Str("c1"), invoiceId |-> Str("i1"), accountId |-> Str("a1"),
         unitPrice |-> Num(0), period |-> Num(1)])

\* the values a supplied field of a declared type may have
FieldValues(type) ==
    CASE type = "string" -> {Str(""), Str("x")}
      [] type = "enum" -> {Str("ACTIVE")}
      [] type = "number" -> {Num(0), Num(5)}
      [] type = "boolean" -> {Bool(FALSE), Bool(TRUE)}
      [] type = "object" -> {RefSample}
      [] type = "array" -> {Arr(<<>>), Arr(<<SampleLine>>)}

\* the partial entities with at most n supplied fields
RECURSIVE PartialInputs(_, _)
PartialInputs(fields, n) ==
    IF n = 0 THEN {Empty}
    ELSE LET fewer == PartialInputs(fields, n - 1)
         IN fewer \cup
            UNION {{g @@ (r.field :> v) : v \in FieldValues(r.type)} :
                     <<g, r>> \in {<<g, r>> \in fewer \X fields : r.field \notin DOMAIN g}}

Supplied(input, field) == Prop(input, field) # Undefined

\* what the remote holds before the update: a value under every key
StoredValue == Str("stored")
Stored(kind) == [k \in {r.key : r \in PatchFields(kind)} \cup IdentityKeys |-> StoredValue]

\* a remote that applies exactly the keys it receives
RemoteApply(stored, patch) ==
    [k \in DOMAIN stored |-> IF k \in DOMAIN patch THEN patch[k] ELSE stored[k]]

\* the entity inside a decoded request body: the first element of the one
\* collection it wraps, or the body itself
BodyEntity(body) ==
    LET o == Val(body)
    IN IF Cardinality(DOMAIN o) = 1
          /\ \A k \in DOMAIN o : TypeOf(o[k]) = "array" /\ Len(Val(o[k])) = 1
       THEN Val(o[CHOOSE k \in DOMAIN o : TRUE])[1]
       ELSE body

\* the arguments of an update operation for a partial entity
UpdateArgs(operation, input) ==
    [id |-> "id1", id2 |-> "id2",
     input |-> IF operation \in NameOperations THEN Prop(input, "name") ELSE input,
     params |-> Undefined]

MapperInit ==
    /\ entity \in UNION {{[kind |-> kind, input |-> Obj(g)] :
                             g \in PartialInputs(PatchFields(kind), MaxSupplied)} :
                          kind \in EntityKinds}
    /\ wire = [via |-> "none", patch |-> Undefined, remote |-> Stored(entity.kind)]
    /\ pc = "drawn"
    /\ credentials = [accessToken |-> Str("tok"), tenantId |-> Str("tenant-1"),
                      baseUrl |-> Undefined]
    /\ baseUrl = ClientBaseUrl(credentials)
    /\ call = NoCall
    /\ fetches = <<>>
    /\ response = NoResponse
    /\ reqOutcome = Pending
    /\ opOutcome = Pending
    /\ toolResult = Pending

\* the toWire mapper of the entity's kind
MapToWire ==
    /\ pc = "drawn"
    /\ entity.kind \in ToWireKinds
    /\ wire' = [wire EXCEPT !.via = "toWire", !.patch = ToWire(entity.kind, entity.input)]
    /\ pc' = "mapped"
    /\ UNCHANGED <<credentials, baseUrl, call, fetches, response, reqOutcome, opOutcome,
                   toolResult, entity>>

\* an update operation builds and serializes its request body
BuildUpdate(operation) ==
    /\ pc = "drawn"
    /\ operation \in UpdateOperations
    /\ UpdateKind(operation) = entity.kind
    /\ wire' = [wire EXCEPT !.via = operation,
                            !.patch = BodyEntity(Operation(operation,
                                         UpdateArgs(operation, entity.input)).body)]
    /\ pc' = "sent"
    /\ UNCHANGED <<credentials, baseUrl, call, fetches, response, reqOutcome, opOutcome,
                   toolResult, entity>>

\* the remote applies the keys it received
RemoteApplies ==
    /\ pc = "sent"
    /\ wire' = [wire EXCEPT !.remote = RemoteApply(wire.remote, Val(wire.patch))]
    /\ pc' = "applied"
    /\ UNCHANGED <<credentials, baseUrl, call, fetches, response, reqOutcome, opOutcome,
                   toolResult, entity>>

MapperNext ==
    \/ MapToWire
    \/ \E operation \in UpdateOperations : BuildUpdate(operation)
    \/ RemoteApplies

MapperSpec == MapperInit /\ [][MapperNext]_vars

-----------------------------------------------------------------------------
(* Properties of the transport, the client operations and the tool          *)
(* handlers, checked under Spec.                                            *)

\* C1: for every client operation, when the access token or the tenant id is
\* empty the credential check fails before fetch is called: the call is
\* rejected with an AuthenticationError and no outbound request was made
C1_NoRequestWithoutCredentials ==
    (pc # "idle" /\ ~ValidCredentials(credentials)) =>
        /\ fetches = <<>>
        /\ reqOutcome.kind = "rejected"
        /\ reqOutcome.error.name = "AuthenticationError"
        /\ opOutcome.kind # "pending"

\* C1 happens: a call with a token but an empty tenant id has settled without
\* any request
C1_EmptyTenantSettled ==
    /\ pc = "settled"
    /\ Truthy(credentials.accessToken)
    /\ credentials.tenantId = Str("")
    /\ call.operation = "listContacts"
    /\ reqOutcome.error.name = "AuthenticationError"
    /\ fetches = <<>>

TransportErrorNames == {"RateLimitError", "AuthenticationError", "CrmApiError"}

C7_HandlerAlwaysReturnsPayload ==
    pc = "returned" =>
        /\ toolResult.kind = "resolved"
        /\ TypeOf(toolResult.value) = "response"
        /\ Val(toolResult.value).isError =
              (\/ opOutcome.kind = "rejected"
               \/ ToolPayload(Tool(call.tool, call.args), opOutcome.value, call.format) = Thrown)

\* C7 happens: the client call resolved, rendering its result threw, and the
\* handler returned an error payload
C7_RenderingThrewInsideHandler ==
    /\ pc = "returned"
    /\ opOutcome.kind = "resolved"
    /\ ToolPayload(Tool(call.tool, call.args), opOutcome.value, call.format) = Thrown
    /\ toolResult.kind = "resolved"
    /\ Val(toolResult.value).isError

-----------------------------------------------------------------------------
(* Properties of request()'s classification, checked under TransportSpec.   *)

\* C2 as written: request() maps every response to one of six outcomes, in
\* this order: 429 is a RateLimitError, 401 and 403 are an AuthenticationError,
\* any other non-2xx is a CrmApiError with the status, 204 is success with an
\* undefined payload, any other 2xx is success with the decoded body
C2_SixOutcomes ==
    pc = "classified" =>
        LET status == response.status
            raised == IF reqOutcome.kind = "rejected" THEN reqOutcome.error.name ELSE "none"
        IN IF status = 429 THEN raised = "RateLimitError"
           ELSE IF status \in {401, 403} THEN raised = "AuthenticationError"
           ELSE IF ~ResponseOk(status)
           THEN raised = "CrmApiError" /\ reqOutcome.error.statusCode = status
           ELSE IF status = 204 THEN reqOutcome = Resolved(Undefined)
           ELSE reqOutcome.kind = "resolved" /\ reqOutcome.value = response.body

\* C2 fails here: a 200 whose body is not JSON is neither a success nor one of
\* the three classified errors; response.json() rejects with a SyntaxError
C2_UndecodableSuccessBody ==
    /\ pc = "classified"
    /\ response.status = 200
    /\ response.body = InvalidJson
    /\ reqOutcome.kind = "rejected"
    /\ reqOutcome.error.name = "SyntaxError"

AllDigits(chars) == chars # <<>> /\ \A i \in 1..Len(chars) : chars[i] \in Digits

\* C3 as written: on a 429 retryAfterSeconds is the integer in the
\* Retry-After header, and 60 when the header is absent or its value cannot
\* be parsed as a number
C3_RetryAfterOrDefault ==
    (pc = "classified" /\ response.status = 429) =>
        LET header == response.retryAfter
            seconds == reqOutcome.error.retryAfterSeconds
        IN /\ (header # NoHeader /\ AllDigits(Val(header))) =>
                  seconds = Num(DecimalValue(Val(header)))
           /\ (header = NoHeader \/ parseInt(Val(header)) = NaN) => seconds = Num(60)

\* C3 fails here: a Retry-After value with no number in it gives NaN, not 60
C3_UnparseableHeaderGivesNaN ==
    /\ pc = "classified"
    /\ response.status = 429
    /\ response.retryAfter = Header(<<"x">>)
    /\ reqOutcome.error.name = "RateLimitError"
    /\ reqOutcome.error.retryAfterSeconds = NaN

\* the '; '-joined validation messages of all Elements of a decoded body
ValidationMessages(body) ==
    LET els == Prop(body, "Elements")
    IN IF TypeOf(els) = "array" THEN FlatMapMessages(FilterElements(Val(els))) ELSE <<>>

\* the message C4 describes, for a notion of a Message that is present
C4Message(status, body, present(_)) ==
    IF body = InvalidJson THEN DefaultMessage(status)
    ELSE IF present(Prop(body, "Message")) THEN Prop(body, "Message")
    ELSE IF ExtractionThrows(body) THEN DefaultMessage(status)
    ELSE IF Len(ValidationMessages(body)) > 0
    THEN Str(Join(ValidationMessages(body), "; "))
    ELSE DefaultMessage(status)

C4Statement(present(_)) ==
    (pc = "classified" /\ ~ResponseOk(response.status)
       /\ response.status \notin {429, 401, 403}) =>
        reqOutcome = Rejected(CrmApiError(C4Message(response.status, response.body, present),
                                          response.status))

IsDefined(v) == v # Undefined

\* C4 as written: the message of the CrmApiError is the top-level Message if
\* it is present, else the '; '-joined validation messages of all Elements if
\* there are any, else 'Xero API error: <status>'; a body that is not JSON, or
\* whose shape makes the extraction fail, gives the generic message, and the
\* CrmApiError carries the status in every case
C4_MessageIfPresent == C4Statement(IsDefined)

\* C4 amended: the top-level Message is used if it is present and not empty;
\* an empty Message is passed over for the validation messages or the generic
\* message
C4_MessageIfNonEmpty == C4Statement(Truthy)

\* C4 happens: a 400 whose Message is empty and whose Elements carry two
\* validation messages
C4_EmptyMessagePassedOver ==
    /\ pc = "classified"
    /\ response.status = 400
    /\ Prop(response.body, "Message") = Str("")
    /\ reqOutcome.error.name = "CrmApiError"
    /\ reqOutcome.error.statusCode = 400
    /\ reqOutcome.error.message = Str("Bad date; Bad total")

-----------------------------------------------------------------------------
(* Properties of the toWire mappers and the update bodies, checked under    *)
(* MapperSpec.                                                              *)

SuppliedKeys(kind, input) ==
    {r.key : r \in {q \in PatchFields(kind) : Supplied(input, q.field)}}

\* C8 as written: the patch toWire builds has exactly the wire keys of the
\* input fields that are not undefined, 0 and "" included
C8_ExactlyTheSuppliedKeys ==
    pc = "mapped" => DOMAIN Val(wire.patch) = SuppliedKeys(entity.kind, entity.input)

\* C8 fails here: a payment whose amount is 0 is mapped to a patch with no
\* Amount
C8_ZeroAmountDropped ==
    /\ pc = "mapped"
    /\ entity.kind = "mapPaymentToXero"
    /\ Prop(entity.input, "amount") = Num(0)
    /\ "Amount" \notin DOMAIN Val(wire.patch)

\* the boolean fields the toWire mappers handle
BooleanFields ==
    {<<kind, r.field>> : <<kind, r>> \in
         {<<kind, r>> \in ToWireKinds \X UNION {PatchFields(k) : k \in ToWireKinds} :
              r \in PatchFields(kind) /\ r.type = "boolean"}}

\* C9: the boolean fields handled by toWire are those of the contact, account,
\* item, payment, manual journal and repeating invoice mappers listed below;
\* for each of them false is emitted as false, and the key is omitted only
\* when the field is undefined
C9_FalseIsEmitted ==
    /\ BooleanFields =
          ({"mapContactToXero"} \X {"isSupplier", "isCustomer"})
          \cup ({"mapAccountToXero"} \X
                   {"enablePaymentsToAccount", "showInExpenseClaims", "addToWatchlist"})
          \cup ({"mapItemToXero"} \X {"isTrackedAsInventory", "isSold", "isPurchased"})
          \cup ({"mapPaymentToXero"} \X {"isReconciled"})
          \cup ({"mapManualJournalToXero"} \X {"showOnCashBasisReports"})
          \cup ({"mapRepeatingInvoiceToXero"} \X
                   {"approvedForSending", "sendCopy", "markAsSent", "includePdf"})
    /\ pc = "mapped" =>
          \A r \in {q \in PatchFields(entity.kind) : q.type = "boolean"} :
              LET v == Prop(entity.input, r.field)
                  patch == Val(wire.patch)
              IN /\ v = Bool(FALSE) => r.key \in DOMAIN patch /\ patch[r.key] = Bool(FALSE)
                 /\ r.key \notin DOMAIN patch <=> v = Undefined

\* C9 happens: an item with isSold false is mapped to a patch with IsSold false
C9_ItemNotSold ==
    /\ pc = "mapped"
    /\ entity.kind = "mapItemToXero"
    /\ Prop(entity.input, "isSold") = Bool(FALSE)
    /\ Val(wire.patch)["IsSold"] = Bool(FALSE)

\* C10: the serialized body of an update operation has no key for an input
\* field that is undefined, so a remote that applies exactly the keys it
\* receives keeps what it stored for every field the caller did not supply;
\* this holds for updateLinkedTransaction too, whose body literal names all
\* five fields
C10_UnsuppliedFieldsUntouched ==
    pc \in {"sent", "applied"} =>
        \A r \in PatchFields(entity.kind) :
            ~Supplied(entity.input, r.field) =>
                /\ r.key \notin DOMAIN Val(wire.patch)
                /\ pc = "applied" => wire.remote[r.key] = StoredValue

\* C10 happens: updateLinkedTransaction with only contactId supplied; the
\* remote took the new ContactID and kept its SourceTransactionID
C10_LinkedTransactionContactOnly ==
    /\ pc = "applied"
    /\ wire.via = "updateLinkedTransaction"
    /\ Prop(entity.input, "contactId") = Str("x")
    /\ ~Supplied(entity.input, "sourceTransactionId")
    /\ wire.remote["ContactID"] = Str("x")
    /\ wire.remote["SourceTransactionID"] = StoredValue

-----------------------------------------------------------------------------
(* Properties of the results of client operations, checked under Spec.      *)

\* the operations that fetch one entity and return the first element of the
\* collection in the decoded body
GetByIdOperations ==
    {operation \in OperationNames :
        LET d == Operation(operation, NoArgs)
        IN d.method = "GET" /\ d.ret = "first"}

\* the remote answered 2xx with an empty collection under the key the
\* operation reads
EmptyCollectionAnswer ==
    /\ pc \in {"settled", "returned"}
    /\ call.operation \in GetByIdOperations
    /\ response.status = 200
    /\ response.body = Obj(Operation(call.operation, call.args).key :> Arr(<<>>))

\* C11 as written: a get-by-id operation answered 2xx with an empty
\* collection fails with a CrmApiError, not with an unclassified runtime
\* error and not with a success value
C11_EmptyCollectionIsNotFound ==
    EmptyCollectionAnswer =>
        opOutcome.kind = "rejected" /\ opOutcome.error.name = "CrmApiError"

\* C11 fails here: getContact answered { Contacts: [] } fails with the
\* TypeError thrown by mapContact(undefined)
C11_GetContactThrowsTypeError ==
    /\ EmptyCollectionAnswer
    /\ call.operation = "getContact"
    /\ reqOutcome.kind = "resolved"
    /\ opOutcome = Rejected(TypeError)

-----------------------------------------------------------------------------
(* List calls on their own: a tool whose operation returns a list is        *)
(* called, and the remote answers with a page of a given size.              *)

\* the tools whose operation returns a list
ListTools ==
    {tool \in ToolNames :
        Operation(Tool(tool, NoArgs).operation, NoArgs).ret \in {"list", "paged"}}

\* page sizes around the size at which the client reports more items
PageCounts == {0, 1, PageSize - 1, PageSize, PageSize + 1}

\* a decoded collection of n wire records
Page(n) == Arr([i \in 1..n |-> SampleWire])

PagingInit ==
    /\ credentials = [accessToken |-> Str("tok"), tenantId |-> Str("tenant-1"),
                      baseUrl |-> Undefined]
    /\ baseUrl = ClientBaseUrl(credentials)
    /\ pc = "idle"
    /\ call = NoCall
    /\ fetches = <<>>
    /\ response = NoResponse
    /\ reqOutcome = Pending
    /\ opOutcome = Pending
    /\ toolResult = Pending
    /\ entity = NoEntity
    /\ wire = Undefined

\* a list tool is called
CallListTool(tool, a, format) ==
    /\ tool \in ListTools
    /\ CallTool(tool, a, format)

\* fetch resolves with a 200 whose collection has n records: request()
\* decodes it and the operation maps it
RespondPage(n) ==
    LET d == Operation(call.operation, call.args)
        resp == HttpResponse(200, NoHeader, Obj(d.key :> Page(n)))
    IN /\ pc = "awaiting"
       /\ response' = resp
       /\ reqOutcome' = request(resp)
       /\ opOutcome' = OperationResult(d, request(resp))
       /\ pc' = "settled"
       /\ UNCHANGED <<credentials, baseUrl, call, fetches, toolResult, entity, wire>>

MaxPage == 3

\* a list tool is called for a page: the schema takes the integers from 1 on
CallListToolAtPage(tool, page) ==
    /\ tool \in ListTools
    /\ Operation(Tool(tool, NoArgs).operation, NoArgs).ret = "paged"
    /\ page \in 1..MaxPage
    /\ Invoke(tool, Tool(tool, NoArgs).operation,
              [id |-> "", id2 |-> "", input |-> Undefined, params |-> Obj([page |-> Num(page)])],
              "json")

PagingNext ==
    \/ \E tool \in ListTools, format \in Formats :
          \E a \in ArgsOf(Tool(tool, NoArgs).operation) : CallListTool(tool, a, format)
    \/ \E tool \in ListTools, page \in 1..MaxPage : CallListToolAtPage(tool, page)
    \/ \E n \in PageCounts : RespondPage(n)
    \/ HandlerReturn

PagingSpec == PagingInit /\ [][PagingNext]_vars

\* the number of items in a list result, bare or wrapped
ItemCount(result) ==
    IF TypeOf(result) = "array" THEN Len(Val(result)) ELSE Len(Val(Prop(result, "items")))

\* C12 as written: for every list-returning operation as the caller sees it,
\* the paged result of the client and the JSON payload a list tool returns,
\* hasMore is true if and only if at least 100 items are returned
C12_HasMoreIffHundred ==
    /\ (pc \in {"settled", "returned"} /\ opOutcome.kind = "resolved"
          /\ Operation(call.operation, call.args).ret = "paged") =>
           (Prop(opOutcome.value, "hasMore") = Bool(TRUE) <=> ItemCount(opOutcome.value) >= 100)
    /\ (pc = "returned" /\ opOutcome.kind = "resolved" /\ call.format = "json") =>
           LET payload == Val(toolResult.value).content
           IN Prop(payload, "hasMore") = Bool(TRUE) <=> ItemCount(payload) >= 100

\* C12 fails here: xero_list_items returns 100 items with hasMore false
C12_HundredItemsNoMore ==
    /\ pc = "returned"
    /\ call.tool = "xero_list_items"
    /\ call.format = "json"
    /\ ItemCount(opOutcome.value) = 100
    /\ ItemCount(Val(toolResult.value).content) = 100
    /\ Prop(Val(toolResult.value).content, "hasMore") = Bool(FALSE)

\* what holds of list results: the paged results of the client, and the
\* payloads of the tools that pass them on or compute the flag from the
\* length, have hasMore true exactly from 100 items on
PagedHasMoreIffHundred ==
    /\ (pc \in {"settled", "returned"} /\ opOutcome.kind = "resolved"
          /\ Operation(call.operation, call.args).ret = "paged") =>
           (Prop(opOutcome.value, "hasMore") = Bool(TRUE) <=> ItemCount(opOutcome.value) >= 100)
    /\ (pc = "returned" /\ opOutcome.kind = "resolved" /\ call.format = "json"
          /\ Tool(call.tool, call.args).wrap \in {"none", "itemsPage"}) =>
           LET payload == Val(toolResult.value).content
           IN Prop(payload, "hasMore") = Bool(TRUE) <=> ItemCount(payload) >= 100

-----------------------------------------------------------------------------
(* Properties of the request URL and of the isolation of inbound calls.     *)

\* the URL request() builds: `${this.baseUrl}${endpoint}` up to the query
RequestUrl(f) == f.base \o f.path

\* C13: when the call's credentials carry a non-empty base-URL override, the
\* URL of every outbound request is the override followed by the endpoint
\* path; the default root https://api.xero.com/api.xro/2.0 is used only when
\* there is no override
C13_OverrideIsTheRoot ==
    \A i \in 1..Len(fetches) :
        LET override == credentials.baseUrl
            endpoint == Operation(call.operation, call.args).path
        IN IF override # Undefined /\ Val(override) # ""
           THEN RequestUrl(fetches[i]) = Val(override) \o endpoint
           ELSE RequestUrl(fetches[i]) = "https://api.xero.com/api.xro/2.0" \o endpoint

\* C13 happens: getInvoice under an override was sent to the override's root
C13_GetInvoiceThroughOverride ==
    /\ pc = "awaiting"
    /\ call.operation = "getInvoice"
    /\ credentials.baseUrl = Str("https://proxy.example/api")
    /\ Len(fetches) = 1
    /\ RequestUrl(fetches[1]) = "https://proxy.example/api/Invoices/id1"

-----------------------------------------------------------------------------
(* Concurrent inbound /mcp calls.  Each inbound call has an index; pc, call, *)
(* credentials, baseUrl and toolResult hold one entry per inbound call, and  *)
(* fetches records which inbound call caused each outbound request.          *)

MaxCalls == 2

InboundCalls == 1..MaxCalls

\* request.headers.get(name): null when the header is absent
TenantHeaders(token, tenant, base) == [token |-> token, tenant |-> tenant, base |-> base]

\* the credential headers inbound calls carry: two tenants, with and without
\* a base-URL override (absent, empty or set), and calls whose token or
\* tenant header is absent or empty
InboundHeaders ==
    {TenantHeaders(Null, Str("tenant-a"), Null),
     TenantHeaders(Str(""), Str("tenant-a"), Null),
     TenantHeaders(Str("token-a"), Null, Null),
     TenantHeaders(Str("token-a"), Str(""), Str("https://proxy.example/api")),
     TenantHeaders(Null, Null, Null)}
    \cup {TenantHeaders(t[1], t[2], base) :
             t \in {<<Str("token-a"), Str("tenant-a")>>, <<Str("token-b"), Str("tenant-b")>>},
             base \in {Null, Str(""), Str("https://proxy.example/api")}}

NoHeaders == TenantHeaders(Null, Null, Null)

\* parseTenantCredentials
parseTenantCredentials(headers) ==
    [accessToken |-> OrElse(headers.token, Str("")),
     tenantId |-> OrElse(headers.tenant, Str("")),
     baseUrl |-> OrElse(headers.base, Undefined)]

\* validateCredentials testing the access token alone
validateCredentialsTokenOnly(creds) == Truthy(creds.accessToken)

\* validateCredentials: TRUE when it returns, FALSE when it throws
validateCredentials(creds) == Truthy(creds.accessToken) /\ Truthy(creds.tenantId)

\* a client shared by all inbound calls: the latest credentials replace it
createSharedServer(clients, c, creds) ==
    [k \in DOMAIN clients |-> [credentials |-> creds, baseUrl |-> ClientBaseUrl(creds)]]

\* createStatelessServer: a server and a client of its own for inbound call c
createStatelessServer(clients, c, creds) ==
    [clients EXCEPT ![c] = [credentials |-> creds, baseUrl |-> ClientBaseUrl(creds)]]

NoCredentials == [accessToken |-> Undefined, tenantId |-> Undefined, baseUrl |-> Undefined]

\* the tools the concurrent calls invoke, and the answers of the remote
TenantTools == {"xero_get_invoice"}
TenantResponses ==
    {HttpResponse(200, NoHeader, Obj([Invoices |-> Arr(<<SampleWire>>)])),
     HttpResponse(401, NoHeader, InvalidJson)}

\* the message of the Error validateCredentials throws: the first missing header
CredentialsError(creds) ==
    IF ~Truthy(creds.accessToken)
    THEN "Missing X-Xero-Access-Token header. Provide a valid OAuth 2.0 access token."
    ELSE "Missing X-Xero-Tenant-Id header. Provide a valid Xero tenant ID."

\* the Response the Worker returns when validateCredentials throws
Unauthorized(creds) ==
    Resolved(<<"http", [status |-> 401,
                        body |-> [error |-> "Unauthorized",
                                  message |-> CredentialsError(creds),
                                  required_headers |-> <<"X-Xero-Access-Token", "X-Xero-Tenant-Id">>]]>>)

TenantInit ==
    /\ pc = [c \in InboundCalls |-> "none"]
    /\ call = [c \in InboundCalls |-> [headers |-> NoHeaders, tool |-> "none", args |-> NoArgs]]
    /\ credentials = [c \in InboundCalls |-> NoCredentials]
    /\ baseUrl = [c \in InboundCalls |-> API_BASE_URL]
    /\ toolResult = [c \in InboundCalls |-> Pending]
    /\ fetches = <<>>
    /\ response = NoResponse
    /\ reqOutcome = Pending
    /\ opOutcome = Pending
    /\ entity = NoEntity
    /\ wire = Undefined

\* the Worker's fetch handler on POST /mcp: credentials are parsed and
\* validated, and a server with its own client is created
Receive(c, headers) ==
    LET creds == parseTenantCredentials(headers)
        clients == createStatelessServer(
                       [k \in InboundCalls |->
                           [credentials |-> credentials[k], baseUrl |-> baseUrl[k]]],
                       c, creds)
    IN /\ pc[c] = "none"
       /\ call' = [call EXCEPT ![c].headers = headers]
       /\ IF validateCredentials(creds)
          THEN /\ credentials' = [k \in InboundCalls |-> clients[k].credentials]
               /\ baseUrl' = [k \in InboundCalls |-> clients[k].baseUrl]
               /\ pc' = [pc EXCEPT ![c] = "ready"]
               /\ toolResult' = toolResult
          ELSE /\ toolResult' = [toolResult EXCEPT ![c] = Unauthorized(creds)]
               /\ pc' = [pc EXCEPT ![c] = "unauthorized"]
               /\ UNCHANGED <<credentials, baseUrl>>
       /\ UNCHANGED <<fetches, response, reqOutcome, opOutcome, entity, wire>>

\* a tool of inbound call c runs its operation up to the fetch
TenantCallTool(c, tool, a) ==
    LET d == Operation(Tool(tool, a).operation, a)
        auth == getAuthHeaders(credentials[c])
    IN /\ pc[c] = "ready"
       /\ call' = [call EXCEPT ![c].tool = tool, ![c].args = a]
       /\ IF auth.threw
          THEN /\ fetches' = fetches
               /\ toolResult' = [toolResult EXCEPT ![c] =
                                    ToolHandler(Tool(tool, a), Rejected(auth.error), "json")]
               /\ pc' = [pc EXCEPT ![c] = "done"]
          ELSE /\ fetches' = Append(fetches, [by |-> c, base |-> baseUrl[c], path |-> d.path,
                                              query |-> d.query, method |-> d.method,
                                              headers |-> auth.headers, body |-> d.body])
               /\ toolResult' = toolResult
               /\ pc' = [pc EXCEPT ![c] = "awaiting"]
       /\ UNCHANGED <<credentials, baseUrl, response, reqOutcome, opOutcome, entity, wire>>

\* the fetch of inbound call c resolves and its handler returns
TenantAnswer(c, resp) ==
    LET t == Tool(call[c].tool, call[c].args)
        d == Operation(t.operation, call[c].args)
    IN /\ pc[c] = "awaiting"
       /\ toolResult' = [toolResult EXCEPT ![c] =
                            ToolHandler(t, OperationResult(d, request(resp)), "json")]
       /\ pc' = [pc EXCEPT ![c] = "done"]
       /\ UNCHANGED <<credentials, baseUrl, call, fetches, response, reqOutcome, opOutcome,
                      entity, wire>>

TenantNext ==
    \E c \in InboundCalls :
        \/ \E headers \in InboundHeaders : Receive(c, headers)
        \/ \E tool \in TenantTools : TenantCallTool(c, tool, NoArgs)
        \/ \E resp \in TenantResponses : TenantAnswer(c, resp)

TenantSpec == TenantInit /\ [][TenantNext]_vars

\* C14: under any interleaving of inbound calls, every outbound request has
\* the bearer token, the Xero-Tenant-Id and the base URL of the inbound call
\* that caused it, never those of another call
C14_RequestsCarryOwnCredentials ==
    \A i \in 1..Len(fetches) :
        LET f == fetches[i]
            h == call[f.by].headers
        IN /\ f.headers.Authorization = "Bearer " \o Val(h.token)
           /\ f.headers.XeroTenantId = Val(h.tenant)
           /\ f.base = IF h.base \in {Null, Str("")}
                       THEN "https://api.xero.com/api.xro/2.0"
                       ELSE Val(h.base)

\* C14 happens: two inbound calls of different tenants are both awaiting
\* their fetch, and the request of call 2 went out before that of call 1
C14_TwoTenantsInFlight ==
    /\ Len(fetches) = 2
    /\ pc[1] = "awaiting" /\ pc[2] = "awaiting"
    /\ call[1].headers.token = Str("token-a")
    /\ call[2].headers.token = Str("token-b")
    /\ call[2].headers.base = Str("https://proxy.example/api")
    /\ fetches[1].by = 2 /\ fetches[2].by = 1
    /\ fetches[1].headers.Authorization = "Bearer token-b"
    /\ fetches[2].headers.Authorization = "Bearer token-a"

-----------------------------------------------------------------------------
(* The mappers in both directions: a wire record is drawn for a fromWire    *)
(* mapper, decoded at one of the call sites of that mapper, and, for the    *)
(* kinds that also have a toWire mapper, the decoded entity is encoded      *)
(* again and the patch is decoded once more.                                *)

MaxLines == 2
MaxChanged == 1

\* the n-th element of the collection a mapper reads under a key, with the
\* keys the per-element mapping reads; elements differ in every string and number
Nth == <<"-1", "-2", "-3", "-4", "-5">>

WireElement(mapper, key, n) ==
    CASE mapper = "mapContactGroup" /\ key = "Contacts" ->
        Obj([ContactID |-> Str("contactid" \o Nth[n]),
             Name |-> Str("name" \o Nth[n])])
      [] mapper \in {"mapBankTransaction", "mapCreditNote", "mapInvoice", "mapOverpayment", "mapPrepayment", "mapPurchaseOrder", "mapQuote", "mapRepeatingInvoice"} /\ key = "LineItems" ->
        Obj([LineItemID |-> Str("lineitemid" \o Nth[n]),
             Description |-> Str("description" \o Nth[n]),
             Quantity |-> Num(30 + n),
             UnitAmount |-> Num(40 + n),
             ItemCode |-> Str("itemcode" \o Nth[n]),
             AccountCode |-> Str("accountcode" \o Nth[n]),
             TaxType |-> Str("taxtype" \o Nth[n]),
             TaxAmount |-> Num(80 + n),
             LineAmount |-> Num(90 + n),
             DiscountRate |-> Num(100 + n),
             DiscountAmount |-> Num(110 + n),
             Tracking |-> Arr(<<Obj([Opaque |-> Str("tracking")])>>)])
      [] mapper = "mapJournal" /\ key = "JournalLines" ->
        Obj([JournalLineID |-> Str("journallineid" \o Nth[n]),
             AccountID |-> Str("accountid" \o Nth[n]),
             AccountCode |-> Str("accountcode" \o Nth[n]),
             AccountType |-> Str("accounttype" \o Nth[n]),
             AccountName |-> Str("accountname" \o Nth[n]),
             Description |-> Str("description" \o Nth[n]),
             NetAmount |-> Num(140 + n),
             GrossAmount |-> Num(150 + n),
             TaxAmount |-> Num(160 + n),
             TaxType |-> Str("taxtype" \o Nth[n]),
             TaxName |-> Str("taxname" \o Nth[n])])
      [] mapper = "mapManualJournal" /\ key = "JournalLines" ->
        Obj([LineAmount |-> Num(60 + n),
             AccountCode |-> Str("accountcode" \o Nth[n]),
             AccountID |-> Str("accountid" \o Nth[n]),
             Description |-> Str("description" \o Nth[n]),
             TaxType |-> Str("taxtype" \o Nth[n]),
             TaxAmount |-> Num(110 + n)])
      [] mapper = "mapTaxRate" /\ key = "TaxComponents" ->
        Obj([Name |-> Str("name" \o Nth[n]),
             Rate |-> Num(40 + n),
             IsCompound |-> Bool(TRUE),
             IsNonRecoverable |-> Bool(TRUE)])
      [] mapper = "mapTrackingCategory" /\ key = "Options" ->
        Obj([TrackingOptionID |-> Str("trackingoptionid" \o Nth[n]),
             Name |-> Str("name" \o Nth[n]),
             Status |-> Str("STATUS" \o Nth[n])])

StructuredKeys(mapper) ==
    CASE mapper = "mapContactGroup" -> {"Contacts"}
      [] mapper = "mapInvoice" -> {"LineItems"}
      [] mapper = "mapCreditNote" -> {"LineItems"}
      [] mapper = "mapBankTransaction" -> {"LineItems"}
      [] mapper = "mapPurchaseOrder" -> {"LineItems"}
      [] mapper = "mapQuote" -> {"LineItems"}
      [] mapper = "mapPrepayment" -> {"LineItems"}
      [] mapper = "mapOverpayment" -> {"LineItems"}
      [] mapper = "mapJournal" -> {"JournalLines"}
      [] mapper = "mapManualJournal" -> {"JournalLines"}
      [] mapper = "mapTaxRate" -> {"TaxComponents"}
      [] mapper = "mapTrackingCategory" -> {"Options"}
      [] mapper = "mapRepeatingInvoice" -> {"LineItems"}
      [] OTHER -> {}

Elements(mapper, key, n) == Arr([i \in 1..n |-> WireElement(mapper, key, i)])

\* a wire record with every key the mapper reads, each under a value of the
\* type the mapper casts it to
WireSample(mapper) ==
    CASE mapper = "mapContact" ->   \* lines 419-446
        Obj([ContactID |-> Str("contactid"),
             ContactNumber |-> Str("contactnumber"),
             AccountNumber |-> Str("accountnumber"),
             ContactStatus |-> Str("CONTACTSTATUS"),
             Name |-> Str("name"),
             FirstName |-> Str("firstname"),
             LastName |-> Str("lastname"),
             EmailAddress |-> Str("emailaddress"),
             BankAccountDetails |-> Str("bankaccountdetails"),
             TaxNumber |-> Str("taxnumber"),
             AccountsReceivableTaxType |-> Str("accountsreceivabletaxtype"),
             AccountsPayableTaxType |-> Str("accountspayabletaxtype"),
             IsSupplier |-> Bool(TRUE),
             IsCustomer |-> Bool(TRUE),
             DefaultCurrency |-> Str("defaultcurrency"),
             UpdatedDateUTC |-> Str("updateddateutc"),
             HasAttachments |-> Bool(TRUE),
             HasValidationErrors |-> Bool(TRUE),
             Addresses |-> Arr(<<Obj([Opaque |-> Str("addresses")])>>),
             Phones |-> Arr(<<Obj([Opaque |-> Str("phones")])>>),
             ContactPersons |-> Arr(<<Obj([Opaque |-> Str("contactpersons")])>>),
             Balances |-> Obj([Opaque |-> Str("balances")]),
             PaymentTerms |-> Obj([Opaque |-> Str("paymentterms")]),
             ContactGroups |-> Arr(<<Obj([Opaque |-> Str("contactgroups")])>>)])
      [] mapper = "mapContactGroup" ->   \* lines 522-529
        Obj([ContactGroupID |-> Str("contactgroupid"),
             Name |-> Str("name"),
             Status |-> Str("STATUS"),
             Contacts |-> Elements(mapper, "Contacts", MaxLines)])
      [] mapper = "mapAccount" ->   \* lines 575-597
        Obj([AccountID |-> Str("accountid"),
             Code |-> Str("code"),
             Name |-> Str("name"),
             Type |-> Str("TYPE"),
             Status |-> Str("STATUS"),
             Description |-> Str("description"),
             TaxType |-> Str("taxtype"),
             Class |-> Str("CLASS"),
             SystemAccount |-> Str("systemaccount"),
             EnablePaymentsToAccount |-> Bool(TRUE),
             ShowInExpenseClaims |-> Bool(TRUE),
             BankAccountNumber |-> Str("bankaccountnumber"),
             BankAccountType |-> Str("bankaccounttype"),
             CurrencyCode |-> Str("currencycode"),
             ReportingCode |-> Str("reportingcode"),
             ReportingCodeName |-> Str("reportingcodename"),
             HasAttachments |-> Bool(TRUE),
             UpdatedDateUTC |-> Str("updateddateutc"),
             AddToWatchlist |-> Bool(TRUE)])
      [] mapper = "mapInvoice" ->   \* lines 677-712
        Obj([InvoiceID |-> Str("invoiceid"),
             InvoiceNumber |-> Str("invoicenumber"),
             Reference |-> Str("reference"),
             Type |-> Str("TYPE"),
             Status |-> Str("STATUS"),
             LineAmountTypes |-> Str("LINEAMOUNTTYPES"),
             Date |-> Str("date"),
             DueDate |-> Str("duedate"),
             ExpectedPaymentDate |-> Str("expectedpaymentdate"),
             PlannedPaymentDate |-> Str("plannedpaymentdate"),
             CurrencyCode |-> Str("currencycode"),
             CurrencyRate |-> Num(14),
             LineItems |-> Elements(mapper, "LineItems", MaxLines),
             SubTotal |-> Num(15),
             TotalTax |-> Num(16),
             Total |-> Num(17),
             TotalDiscount |-> Num(18),
             AmountDue |-> Num(19),
             AmountPaid |-> Num(20),
             AmountCredited |-> Num(21),
             FullyPaidOnDate |-> Str("fullypaidondate"),
             Url |-> Str("url"),
             BrandingThemeID |-> Str("brandingthemeid"),
             SentToContact |-> Bool(TRUE),
             HasAttachments |-> Bool(TRUE),
             HasErrors |-> Bool(TRUE),
             UpdatedDateUTC |-> Str("updateddateutc"),
             Contact |-> Obj([ContactID |-> Str("contactid"), Name |-> Str("name")])])
      [] mapper = "mapCreditNote" ->   \* lines 820-844
        Obj([CreditNoteID |-> Str("creditnoteid"),
             CreditNoteNumber |-> Str("creditnotenumber"),
             Reference |-> Str("reference"),
             Type |-> Str("TYPE"),
             Status |-> Str("STATUS"),
             Date |-> Str("date"),
             CurrencyCode |-> Str("currencycode"),
             CurrencyRate |-> Num(10),
             LineItems |-> Elements(mapper, "LineItems", MaxLines),
             SubTotal |-> Num(11),
             TotalTax |-> Num(12),
             Total |-> Num(13),
             RemainingCredit |-> Num(14),
             BrandingThemeID |-> Str("brandingthemeid"),
             HasAttachments |-> Bool(TRUE),
             UpdatedDateUTC |-> Str("updateddateutc"),
             Contact |-> Obj([ContactID |-> Str("contactid"), Name |-> Str("name")])])
      [] mapper = "mapPayment" ->   \* lines 910-926
        Obj([PaymentID |-> Str("paymentid"),
             PaymentType |-> Str("PAYMENTTYPE"),
             Date |-> Str("date"),
             Amount |-> Num(4),
             CurrencyRate |-> Num(5),
             Reference |-> Str("reference"),
             IsReconciled |-> Bool(TRUE),
             Status |-> Str("STATUS"),
             UpdatedDateUTC |-> Str("updateddateutc"),
             Invoice |-> Obj([InvoiceID |-> Str("invoiceid"), InvoiceNumber |-> Str("invoicenumber")]),
             Account |-> Obj([AccountID |-> Str("accountid"), Code |-> Str("code")])])
      [] mapper = "mapBankTransaction" ->   \* lines 984-1010
        Obj([BankTransactionID |-> Str("banktransactionid"),
             Type |-> Str("TYPE"),
             Status |-> Str("STATUS"),
             Date |-> Str("date"),
             LineItems |-> Elements(mapper, "LineItems", MaxLines),
             IsReconciled |-> Bool(TRUE),
             Reference |-> Str("reference"),
             CurrencyCode |-> Str("currencycode"),
             CurrencyRate |-> Num(13),
             Url |-> Str("url"),
             SubTotal |-> Num(15),
             TotalTax |-> Num(16),
             Total |-> Num(17),
             HasAttachments |-> Bool(TRUE),
             UpdatedDateUTC |-> Str("updateddateutc"),
             Contact |-> Obj([ContactID |-> Str("contactid"), Name |-> Str("name")]),
             BankAccount |-> Obj([AccountID |-> Str("accountid"), Code |-> Str("code"), Name |-> Str("name")])])
      [] mapper = "mapBankTransfer" ->   \* lines 1074-1097
        Obj([BankTransferID |-> Str("banktransferid"),
             Amount |-> Num(8),
             Date |-> Str("date"),
             CurrencyRate |-> Num(10),
             FromBankTransactionID |-> Str("frombanktransactionid"),
             ToBankTransactionID |-> Str("tobanktransactionid"),
             HasAttachments |-> Bool(TRUE),
             CreatedDateUTC |-> Str("createddateutc"),
             FromBankAccount |-> Obj([AccountID |-> Str("accountid"), Code |-> Str("code"), Name |-> Str("name")]),
             ToBankAccount |-> Obj([AccountID |-> Str("accountid"), Code |-> Str("code"), Name |-> Str("name")])])
      [] mapper = "mapItem" ->   \* lines 1138-1166
        Obj([ItemID |-> Str("itemid"),
             Code |-> Str("code"),
             Name |-> Str("name"),
             Description |-> Str("description"),
             PurchaseDescription |-> Str("purchasedescription"),
             IsTrackedAsInventory |-> Bool(TRUE),
             InventoryAssetAccountCode |-> Str("inventoryassetaccountcode"),
             TotalCostPool |-> Num(15),
             QuantityOnHand |-> Num(16),
             IsSold |-> Bool(TRUE),
             IsPurchased |-> Bool(TRUE),
             UpdatedDateUTC |-> Str("updateddateutc"),
             PurchaseDetails |-> Obj([UnitPrice |-> Num(6), AccountCode |-> Str("accountcode"), COGSAccountCode |-> Str("cogsaccountcode"), TaxType |-> Str("taxtype")]),
             SalesDetails |-> Obj([UnitPrice |-> Num(10), AccountCode |-> Str("accountcode"), TaxType |-> Str("taxtype")])])
      [] mapper = "mapPurchaseOrder" ->   \* lines 1247-1275
        Obj([PurchaseOrderID |-> Str("purchaseorderid"),
             PurchaseOrderNumber |-> Str("purchaseordernumber"),
             Reference |-> Str("reference"),
             Status |-> Str("STATUS"),
             Date |-> Str("date"),
             DeliveryDate |-> Str("deliverydate"),
             DeliveryAddress |-> Str("deliveryaddress"),
             AttentionTo |-> Str("attentionto"),
             Telephone |-> Str("telephone"),
             DeliveryInstructions |-> Str("deliveryinstructions"),
             ExpectedArrivalDate |-> Str("expectedarrivaldate"),
             CurrencyCode |-> Str("currencycode"),
             CurrencyRate |-> Num(15),
             LineItems |-> Elements(mapper, "LineItems", MaxLines),
             SubTotal |-> Num(16),
             TotalTax |-> Num(17),
             Total |-> Num(18),
             TotalDiscount |-> Num(19),
             HasAttachments |-> Bool(TRUE),
             UpdatedDateUTC |-> Str("updateddateutc"),
             Contact |-> Obj([ContactID |-> Str("contactid"), Name |-> Str("name")])])
      [] mapper = "mapQuote" ->   \* lines 1353-1379
        Obj([QuoteID |-> Str("quoteid"),
             QuoteNumber |-> Str("quotenumber"),
             Reference |-> Str("reference"),
             Status |-> Str("STATUS"),
             Date |-> Str("date"),
             ExpiryDate |-> Str("expirydate"),
             CurrencyCode |-> Str("currencycode"),
             CurrencyRate |-> Num(10),
             LineItems |-> Elements(mapper, "LineItems", MaxLines),
             SubTotal |-> Num(11),
             TotalTax |-> Num(12),
             Total |-> Num(13),
             TotalDiscount |-> Num(14),
             Title |-> Str("title"),
             Summary |-> Str("summary"),
             Terms |-> Str("terms"),
             BrandingThemeID |-> Str("brandingthemeid"),
             UpdatedDateUTC |-> Str("updateddateutc"),
             Contact |-> Obj([ContactID |-> Str("contactid"), Name |-> Str("name")])])
      [] mapper = "mapPrepayment" ->   \* lines 1445-1464
        Obj([PrepaymentID |-> Str("prepaymentid"),
             Type |-> Str("TYPE"),
             Date |-> Str("date"),
             Status |-> Str("STATUS"),
             LineAmountTypes |-> Str("LINEAMOUNTTYPES"),
             LineItems |-> Elements(mapper, "LineItems", MaxLines),
             SubTotal |-> Num(8),
             TotalTax |-> Num(9),
             Total |-> Num(10),
             RemainingCredit |-> Num(11),
             CurrencyCode |-> Str("currencycode"),
             CurrencyRate |-> Num(13),
             HasAttachments |-> Bool(TRUE),
             UpdatedDateUTC |-> Str("updateddateutc"),
             Contact |-> Obj([ContactID |-> Str("contactid"), Name |-> Str("name")])])
      [] mapper = "mapOverpayment" ->   \* lines 1504-1523
        Obj([OverpaymentID |-> Str("overpaymentid"),
             Type |-> Str("TYPE"),
             Date |-> Str("date"),
             Status |-> Str("STATUS"),
             LineAmountTypes |-> Str("LINEAMOUNTTYPES"),
             LineItems |-> Elements(mapper, "LineItems", MaxLines),
             SubTotal |-> Num(8),
             TotalTax |-> Num(9),
             Total |-> Num(10),
             RemainingCredit |-> Num(11),
             CurrencyCode |-> Str("currencycode"),
             CurrencyRate |-> Num(13),
             HasAttachments |-> Bool(TRUE),
             UpdatedDateUTC |-> Str("updateddateutc"),
             Contact |-> Obj([ContactID |-> Str("contactid"), Name |-> Str("name")])])
      [] mapper = "mapJournal" ->   \* lines 1546-1569
        Obj([JournalID |-> Str("journalid"),
             JournalDate |-> Str("journaldate"),
             JournalNumber |-> Num(3),
             CreatedDateUTC |-> Str("createddateutc"),
             Reference |-> Str("reference"),
             SourceID |-> Str("sourceid"),
             SourceType |-> Str("sourcetype"),
             JournalLines |-> Elements(mapper, "JournalLines", MaxLines)])
      [] mapper = "mapManualJournal" ->   \* lines 1614-1634
        Obj([ManualJournalID |-> Str("manualjournalid"),
             Date |-> Str("date"),
             Status |-> Str("STATUS"),
             Narration |-> Str("narration"),
             LineAmountTypes |-> Str("LINEAMOUNTTYPES"),
             JournalLines |-> Elements(mapper, "JournalLines", MaxLines),
             Url |-> Str("url"),
             ShowOnCashBasisReports |-> Bool(TRUE),
             HasAttachments |-> Bool(TRUE),
             UpdatedDateUTC |-> Str("updateddateutc")])
      [] mapper = "mapBatchPayment" ->   \* lines 1696-1711
        Obj([BatchPaymentID |-> Str("batchpaymentid"),
             Particulars |-> Str("particulars"),
             Code |-> Str("code"),
             Reference |-> Str("reference"),
             Date |-> Str("date"),
             Type |-> Str("TYPE"),
             Status |-> Str("STATUS"),
             TotalAmount |-> Num(10),
             IsReconciled |-> Bool(TRUE),
             UpdatedDateUTC |-> Str("updateddateutc"),
             Account |-> Obj([AccountID |-> Str("accountid"), Code |-> Str("code")])])
      [] mapper = "mapTaxRate" ->   \* lines 1762-1782
        Obj([Name |-> Str("name"),
             TaxType |-> Str("taxtype"),
             TaxComponents |-> Elements(mapper, "TaxComponents", MaxLines),
             Status |-> Str("STATUS"),
             ReportTaxType |-> Str("REPORTTAXTYPE"),
             CanApplyToAssets |-> Bool(TRUE),
             CanApplyToEquity |-> Bool(TRUE),
             CanApplyToExpenses |-> Bool(TRUE),
             CanApplyToLiabilities |-> Bool(TRUE),
             CanApplyToRevenue |-> Bool(TRUE),
             DisplayTaxRate |-> Num(14),
             EffectiveRate |-> Num(15)])
      [] mapper = "mapTrackingCategory" ->   \* lines 1876-1887
        Obj([TrackingCategoryID |-> Str("trackingcategoryid"),
             Name |-> Str("name"),
             Status |-> Str("STATUS"),
             Options |-> Elements(mapper, "Options", MaxLines)])
      [] mapper = "mapBrandingTheme" ->   \* lines 1903-1912
        Obj([BrandingThemeID |-> Str("brandingthemeid"),
             Name |-> Str("name"),
             LogoUrl |-> Str("logourl"),
             Type |-> Str("TYPE"),
             SortOrder |-> Num(5),
             CreatedDateUTC |-> Str("createddateutc")])
      [] mapper = "mapRepeatingInvoice" ->   \* lines 1951-1985
        Obj([RepeatingInvoiceID |-> Str("repeatinginvoiceid"),
             Type |-> Str("TYPE"),
             Reference |-> Str("reference"),
             HasAttachments |-> Bool(TRUE),
             LineItems |-> Elements(mapper, "LineItems", MaxLines),
             LineAmountTypes |-> Str("LINEAMOUNTTYPES"),
             Status |-> Str("STATUS"),
             SubTotal |-> Num(16),
             TotalTax |-> Num(17),
             Total |-> Num(18),
             CurrencyCode |-> Str("currencycode"),
             BrandingThemeID |-> Str("brandingthemeid"),
             ApprovedForSending |-> Bool(TRUE),
             SendCopy |-> Bool(TRUE),
             MarkAsSent |-> Bool(TRUE),
             IncludePDF |-> Bool(TRUE),
             Contact |-> Obj([ContactID |-> Str("contactid"), Name |-> Str("name")]),
             Schedule |-> Obj([Period |-> Num(7), Unit |-> Str("UNIT"), DueDate |-> Num(9), DueDateType |-> Str("DUEDATETYPE"), StartDate |-> Str("startdate"), NextScheduledDate |-> Str("nextscheduleddate"), EndDate |-> Str("enddate")])])
      [] mapper = "mapUser" ->   \* lines 2037-2047
        Obj([UserID |-> Str("userid"),
             EmailAddress |-> Str("emailaddress"),
             FirstName |-> Str("firstname"),
             LastName |-> Str("lastname"),
             UpdatedDateUTC |-> Str("updateddateutc"),
             IsSubscriber |-> Bool(TRUE),
             OrganisationRole |-> Str("ORGANISATIONROLE")])
      [] mapper = "mapLinkedTransaction" ->   \* lines 2107-2120
        Obj([LinkedTransactionID |-> Str("linkedtransactionid"),
             SourceTransactionID |-> Str("sourcetransactionid"),
             SourceLineItemID |-> Str("sourcelineitemid"),
             SourceTransactionTypeCode |-> Str("SOURCETRANSACTIONTYPECODE"),
             ContactID |-> Str("contactid"),
             TargetTransactionID |-> Str("targettransactionid"),
             TargetLineItemID |-> Str("targetlineitemid"),
             Status |-> Str("STATUS"),
             Type |-> Str("TYPE"),
             UpdatedDateUTC |-> Str("updateddateutc")])
      [] mapper = "mapReport" ->   \* lines 2204-2214
        Obj([ReportID |-> Str("reportid"),
             ReportName |-> Str("reportname"),
             ReportType |-> Str("reporttype"),
             ReportTitles |-> Arr(<<Obj([Opaque |-> Str("reporttitles")])>>),
             ReportDate |-> Str("reportdate"),
             UpdatedDateUTC |-> Str("updateddateutc"),
             Rows |-> Arr(<<Obj([Opaque |-> Str("rows")])>>)])

FromWireMappers ==
    {"mapContact", "mapContactGroup", "mapAccount", "mapInvoice", "mapCreditNote",
     "mapPayment", "mapBankTransaction", "mapBankTransfer", "mapItem",
     "mapPurchaseOrder", "mapQuote", "mapPrepayment", "mapOverpayment", "mapJournal",
     "mapManualJournal", "mapBatchPayment", "mapTaxRate", "mapTrackingCategory",
     "mapBrandingTheme", "mapRepeatingInvoice", "mapUser", "mapLinkedTransaction",
     "mapReport"}

\* the toWire mapper of the entity kind a fromWire mapper produces
PairedMappers ==
    {"mapContact", "mapAccount", "mapInvoice", "mapCreditNote", "mapPayment",
     "mapBankTransaction", "mapItem", "mapPurchaseOrder", "mapQuote",
     "mapManualJournal", "mapBatchPayment", "mapTaxRate", "mapRepeatingInvoice"}

ToWireOf(mapper) ==
    CASE mapper = "mapContact" -> "mapContactToXero"
      [] mapper = "mapAccount" -> "mapAccountToXero"
      [] mapper = "mapInvoice" -> "mapInvoiceToXero"
      [] mapper = "mapCreditNote" -> "mapCreditNoteToXero"
      [] mapper = "mapPayment" -> "mapPaymentToXero"
      [] mapper = "mapBankTransaction" -> "mapBankTransactionToXero"
      [] mapper = "mapItem" -> "mapItemToXero"
      [] mapper = "mapPurchaseOrder" -> "mapPurchaseOrderToXero"
      [] mapper = "mapQuote" -> "mapQuoteToXero"
      [] mapper = "mapManualJournal" -> "mapManualJournalToXero"
      [] mapper = "mapBatchPayment" -> "mapBatchPaymentToXero"
      [] mapper = "mapTaxRate" -> "mapTaxRateToXero"
      [] mapper = "mapRepeatingInvoice" -> "mapRepeatingInvoiceToXero"

\* a key left out of the record
Absent == <<"absent", "">>

\* the other values tried under a key: the falsy value of its type, an object
\* without members, a collection of every shorter length
Alternatives(mapper, key, v) ==
    CASE TypeOf(v) = "string" -> {Str("")}
      [] TypeOf(v) = "number" -> {Num(0)}
      [] TypeOf(v) = "boolean" -> {Bool(FALSE)}
      [] TypeOf(v) = "object" -> {Obj(Empty)}
      [] TypeOf(v) = "array" ->
           IF key \in StructuredKeys(mapper)
           THEN {Elements(mapper, key, n) : n \in 0..(MaxLines - 1)}
           ELSE {Arr(<<>>)}

\* the sets of at most n keys
RECURSIVE KeySets(_, _)
KeySets(keys, n) ==
    IF n = 0 THEN {{}}
    ELSE LET fewer == KeySets(keys, n - 1)
         IN fewer \cup {S \cup {k} : <<S, k>> \in fewer \X keys}

\* the wire records of a mapper: the full sample with at most MaxChanged keys
\* absent or under another value
WireRecords(mapper) ==
    LET full == Val(WireSample(mapper))
        options(k) == {Absent} \cup Alternatives(mapper, k, full[k])
        changes(S) == {c \in [S -> UNION {options(k) : k \in S}] :
                         \A k \in S : c[k] \in options(k)}
        changed(c) == [k \in DOMAIN full \ {k \in DOMAIN c : c[k] = Absent} |->
                         IF k \in DOMAIN c THEN c[k] ELSE full[k]]
    IN UNION {{Obj(changed(c)) : c \in changes(S)} :
                S \in KeySets(DOMAIN full, MaxChanged)}

\* how the call sites of a mapper invoke it: as a method of the client
\* (this.mapX(...), or a reference bound with .bind(this)) or as a bare
\* method reference handed to Array.prototype.map, which calls it with
\* `this` undefined
CallSites(mapper) ==
    {Operation(operation, NoArgs).bound :
       operation \in {o \in OperationNames : Operation(o, NoArgs).mapper = mapper}}

NotDecoded == [bound |-> TRUE, first |-> Undefined, patch |-> Undefined,
               second |-> Undefined]

RoundTripInit ==
    /\ wire \in UNION {{[mapper |-> mapper, record |-> w] : w \in WireRecords(mapper)} :
                        mapper \in FromWireMappers}
    /\ entity = NotDecoded
    /\ pc = "received"
    /\ credentials = [accessToken |-> Str("tok"), tenantId |-> Str("tenant-1"),
                      baseUrl |-> Undefined]
    /\ baseUrl = ClientBaseUrl(credentials)
    /\ call = NoCall
    /\ fetches = <<>>
    /\ response = NoResponse
    /\ reqOutcome = Pending
    /\ opOutcome = Pending
    /\ toolResult = Pending

\* fromWire, as one of the mapper's call sites invokes it
Decode(bound) ==
    /\ pc = "received"
    /\ bound \in CallSites(wire.mapper)
    /\ LET e == FromWire(wire.mapper, wire.record, bound)
       IN /\ entity' = [entity EXCEPT !.bound = bound, !.first = e]
          /\ pc' = IF e = Thrown THEN "threw" ELSE "decoded"
    /\ UNCHANGED <<credentials, baseUrl, call, fetches, response, reqOutcome, opOutcome,
                   toolResult, wire>>

\* toWire of the entity fromWire returned
Encode ==
    /\ pc = "decoded"
    /\ wire.mapper \in PairedMappers
    /\ entity' = [entity EXCEPT !.patch = ToWire(ToWireOf(wire.mapper), entity.first)]
    /\ pc' = "encoded"
    /\ UNCHANGED <<credentials, baseUrl, call, fetches, response, reqOutcome, opOutcome,
                   toolResult, wire>>

\* fromWire of the patch
DecodeAgain ==
    /\ pc = "encoded"
    /\ entity' = [entity EXCEPT !.second = FromWire(wire.mapper, entity.patch, TRUE)]
    /\ pc' = "redecoded"
    /\ UNCHANGED <<credentials, baseUrl, call, fetches, response, reqOutcome, opOutcome,
                   toolResult, wire>>

RoundTripNext ==
    \/ \E bound \in BOOLEAN : Decode(bound)
    \/ Encode
    \/ DecodeAgain

RoundTripSpec == RoundTripInit /\ [][RoundTripNext]_vars

RoundTripTypeOK == pc \in {"received", "decoded", "threw", "encoded", "redecoded"}

-----------------------------------------------------------------------------
(* Properties of the mappers in both directions, checked under              *)
(* RoundTripSpec.                                                           *)

\* the keys of the money fields the remote computes
RemoteComputedKeys ==
    {"SubTotal", "TotalTax", "Total", "TotalDiscount", "AmountDue", "AmountPaid",
     "AmountCredited", "RemainingCredit"}

\* the keys of a line item that the remote assigns or computes
RemoteComputedLineKeys == {"LineItemID", "TaxAmount", "LineAmount"}

Encoded == pc \in {"encoded", "redecoded"}

\* C15: whatever entity a toWire mapper is given, the full entity a fromWire
\* mapper returned included, the patch has none of the keys SubTotal, TotalTax,
\* Total, TotalDiscount, AmountDue, AmountPaid, AmountCredited, RemainingCredit,
\* and no element of its LineItems has a key LineItemID, TaxAmount or LineAmount
C15_NoRemoteComputedField ==
    Encoded =>
        LET patch == Val(entity.patch)
        IN /\ DOMAIN patch \cap RemoteComputedKeys = {}
           /\ "LineItems" \in DOMAIN patch =>
                 \A i \in 1..Len(Val(patch.LineItems)) :
                     DOMAIN Val(Val(patch.LineItems)[i]) \cap RemoteComputedLineKeys = {}

\* an invoice decoded with its total and with line items that carry an id, a
\* tax amount and a line amount has been encoded, line items included
C15_FullInvoiceEncoded ==
    /\ pc = "encoded"
    /\ wire.mapper = "mapInvoice"
    /\ Truthy(Prop(entity.first, "total"))
    /\ Truthy(Prop(entity.first, "amountDue"))
    /\ TypeOf(Prop(entity.first, "lineItems")) = "array"
    /\ Len(Val(Prop(entity.first, "lineItems"))) = MaxLines
    /\ \A k \in {"lineItemId", "taxAmount", "lineAmount"} :
          Truthy(Prop(Val(Prop(entity.first, "lineItems"))[1], k))
    /\ Len(Val(Prop(entity.patch, "LineItems"))) = MaxLines

\* the entity field a fromWire mapper fills from a collection key
CollectionField(key) ==
    CASE key = "LineItems" -> "lineItems"
      [] key = "JournalLines" -> "journalLines"
      [] key = "TaxComponents" -> "taxComponents"
      [] key = "Options" -> "options"
      [] key = "Contacts" -> "contacts"

\* v with the member k replaced by the one-element list <<x>>
WithOnly(v, k, x) == Obj((k :> Arr(<<x>>)) @@ Val(v))

\* the collections of the record that was decoded, and of the entity that was
\* encoded
DecodedCollections ==
    {key \in StructuredKeys(wire.mapper) : TypeOf(Prop(wire.record, key)) = "array"}

\* fromWire maps a collection element by element: as many elements as the wire
\* list, the i-th being what the mapper makes of the i-th wire element alone
FromWireElementwise ==
    \A key \in DecodedCollections :
        LET ws == Val(Prop(wire.record, key))
            es == Prop(entity.first, CollectionField(key))
        IN /\ TypeOf(es) = "array"
           /\ Len(Val(es)) = Len(ws)
           /\ \A i \in 1..Len(ws) :
                 Val(es)[i] = Val(Prop(FromWire(wire.mapper,
                                                WithOnly(wire.record, key, ws[i]), TRUE),
                                       CollectionField(key)))[1]

\* toWire does the same with the collections of the entity
ToWireElementwise ==
    \A key \in DecodedCollections :
        LET es == Val(Prop(entity.first, CollectionField(key)))
            ps == Prop(entity.patch, key)
        IN /\ TypeOf(ps) = "array"
           /\ Len(Val(ps)) = Len(es)
           /\ \A i \in 1..Len(es) :
                 Val(ps)[i] = Val(Prop(ToWire(ToWireOf(wire.mapper),
                                              WithOnly(entity.first, CollectionField(key), es[i])),
                                       key))[1]

\* C16: line items, tax components and journal lines are mapped element by
\* element in both directions: the result has the length of the input and its
\* i-th element is the mapping of the i-th input element
C16_CollectionsElementwise ==
    /\ pc \in {"decoded", "encoded", "redecoded"} => FromWireElementwise
    /\ Encoded => ToWireElementwise

\* a tax rate with MaxLines different components went through both mappers
C16_TaxComponentsBothWays ==
    /\ pc = "encoded"
    /\ wire.mapper = "mapTaxRate"
    /\ Len(Val(Prop(wire.record, "TaxComponents"))) = MaxLines
    /\ Val(Prop(wire.record, "TaxComponents"))[1] # Val(Prop(wire.record, "TaxComponents"))[MaxLines]
    /\ Len(Val(Prop(entity.first, "taxComponents"))) = MaxLines
    /\ Len(Val(Prop(entity.patch, "TaxComponents"))) = MaxLines

\* fromWire(toWire(fromWire(w))) for a mapper that has a toWire
RoundTrip(mapper, w) ==
    FromWire(mapper, ToWire(ToWireOf(mapper), FromWire(mapper, w, TRUE)), TRUE)

\* what toWire is capable of emitting: the members that survive the round
\* trip of the record with every key present
Emittable(mapper) == RoundTrip(mapper, WireSample(mapper))

\* a and b agree wherever shape has a value: member by member for an object,
\* element by element (and in length) for a list
RECURSIVE AgreesOn(_, _, _)
AgreesOn(a, b, shape) ==
    CASE TypeOf(shape) = "undefined" -> TRUE
      [] TypeOf(shape) = "object" /\ TypeOf(a) = "object" /\ TypeOf(b) = "object" ->
           \A k \in DOMAIN Val(shape) : AgreesOn(Prop(a, k), Prop(b, k), Val(shape)[k])
      [] TypeOf(shape) = "array" /\ TypeOf(a) = "array" /\ TypeOf(b) = "array"
           /\ Len(Val(shape)) > 0 ->
           /\ Len(Val(a)) = Len(Val(b))
           /\ \A i \in 1..Len(Val(a)) : AgreesOn(Val(a)[i], Val(b)[i], Val(shape)[1])
      [] OTHER -> a = b

\* C17: for every entity kind with both mappers and every wire record w,
\* fromWire(toWire(fromWire(w))) agrees with fromWire(w) on every field the
\* kind's toWire is capable of emitting
C17_RoundTripAgrees ==
    pc = "redecoded" => AgreesOn(entity.first, entity.second, Emittable(wire.mapper))

\* the keys of the record whose value is falsy without being a boolean
FalsyKeys(w) ==
    {k \in DOMAIN Val(w) : ~Truthy(Val(w)[k]) /\ TypeOf(Val(w)[k]) # "boolean"}

\* the round trip agrees on every emittable field when no top-level value of
\* the record is 0 or ""
RoundTripAgreesOnTruthy ==
    pc = "redecoded" /\ FalsyKeys(wire.record) = {} =>
        AgreesOn(entity.first, entity.second, Emittable(wire.mapper))

\* a contact whose Name is "" came back from the round trip without a name
C17_EmptyNameLost ==
    /\ pc = "redecoded"
    /\ wire.mapper = "mapContact"
    /\ Prop(wire.record, "Name") = Str("")
    /\ Prop(entity.first, "name") = Str("")
    /\ "Name" \notin DOMAIN Val(entity.patch)
    /\ Prop(entity.second, "name") = Undefined
    /\ Prop(Emittable("mapContact"), "name") # Undefined

\* the keys of the mapper's wire schema that the record lacks
AbsentKeys == DOMAIN Val(WireSample(wire.mapper)) \ DOMAIN Val(wire.record)

\* the entity field is filled from the wire key: it changes when the key alone
\* is added to the empty record
FilledFrom(mapper, field, key) ==
    Prop(FromWire(mapper, Obj(key :> Val(WireSample(mapper))[key]), TRUE), field)
        # Prop(FromWire(mapper, Obj(Empty), TRUE), field)

\* undefined, or an object literal all of whose members are undefined
NoValue(v) ==
    \/ v = Undefined
    \/ TypeOf(v) = "object" /\ \A k \in DOMAIN Val(v) : Val(v)[k] = Undefined

\* the fields filled from the absent keys have no value
AbsentFieldsUndefined ==
    \A key \in AbsentKeys :
        \A field \in DOMAIN Val(entity.first) :
            FilledFrom(wire.mapper, field, key) => NoValue(Val(entity.first)[field])

\* C18: every fromWire mapper, given a wire record with any subset of its
\* documented keys absent (nested Contact, BankAccount, Schedule,
\* PurchaseDetails, SalesDetails and LineItems included), returns an entity
\* whose corresponding fields are undefined, and never throws
C18_FromWireTotal ==
    pc # "received" => pc # "threw" /\ AbsentFieldsUndefined

\* a mapper throws only where it is handed to Array.prototype.map as a bare
\* method reference and the record has a collection that it maps with
\* this.mapX; invoked as a method of the client it is total
FromWireTotalAsMethod ==
    /\ pc = "threw" => ~entity.bound /\ DecodedCollections # {}
    /\ pc \in {"decoded", "encoded", "redecoded"} => AbsentFieldsUndefined

\* listInvoices' mapper threw on an invoice record that carries line items
C18_ListedInvoiceThrows ==
    /\ pc = "threw"
    /\ wire.mapper = "mapInvoice"
    /\ ~entity.bound
    /\ entity.first = Thrown
    /\ TypeOf(Prop(wire.record, "LineItems")) = "array"
    /\ "Reference" \notin DOMAIN Val(wire.record)

-----------------------------------------------------------------------------
(* Properties of single operations, checked under Spec.                     *)

\* the collection under which the parent of an allocation lives
AllocationParent(operation) ==
    CASE operation = "allocateCreditNote" -> "/CreditNotes/"
      [] operation = "allocatePrepayment" -> "/Prepayments/"
      [] operation = "allocateOverpayment" -> "/Overpayments/"

\* the '; '-joined validation messages of ValidationBody
FlattenedValidation ==
    Str("Amount exceeds remaining credit; Invoice is not awaiting payment")

\* C19: allocateCreditNote, allocatePrepayment and allocateOverpayment make no
\* check of the amount of their own: whatever the amount, they send one PUT to
\* <parent>/Allocations with that amount, they fail only as request() fails or
\* as reading the answer fails, and when the remote rejects the allocation
\* with validation errors the caller gets a CrmApiError whose message is the
\* flattened validation messages
C19_AllocationLeftToRemote ==
    call.operation \in AllocateOperations /\ ValidCredentials(credentials) =>
        /\ Len(fetches) = 1
        /\ fetches[1].method = "PUT"
        /\ fetches[1].path = AllocationParent(call.operation) \o call.args.id \o "/Allocations"
        /\ Len(Val(Prop(fetches[1].body, "Allocations"))) = 1
        /\ Prop(Val(Prop(fetches[1].body, "Allocations"))[1], "Amount")
              = Prop(call.args.input, "amount")
        /\ opOutcome.kind = "rejected" =>
              opOutcome.error = reqOutcome.error \/ opOutcome.error = TypeError
        /\ pc \in {"settled", "returned"} /\ response.status = 400 /\ response.body = ValidationBody =>
              opOutcome = Rejected(CrmApiError(FlattenedValidation, 400))

\* a credit note was allocated for far more than any remaining credit, the
\* request went out and the remote's rejection reached the caller
C19_OverAllocationRejected ==
    /\ pc = "settled"
    /\ call.operation = "allocateCreditNote"
    /\ Prop(call.args.input, "amount") = Num(1000000)
    /\ Len(fetches) = 1
    /\ response.status = 400
    /\ opOutcome.error.name = "CrmApiError"
    /\ opOutcome.error.message = FlattenedValidation

-----------------------------------------------------------------------------
(* Voiding an invoice against a remote that holds the invoice's status:     *)
(* the remote accepts the transition from AUTHORISED, refuses it from PAID, *)
(* and for an invoice that is VOIDED already either answers with the        *)
(* invoice again or refuses.                                                *)

InvoiceStatuses == {"AUTHORISED", "VOIDED", "PAID"}

\* the record the remote returns for the invoice
RemoteInvoice(status) ==
    Obj([InvoiceID |-> Str("id1"), InvoiceNumber |-> Str("INV-1"), Type |-> Str("ACCREC"),
         Status |-> Str(status), Total |-> Num(5),
         Contact |-> Obj([ContactID |-> Str("c1"), Name |-> Str("Acme")])])

StatusRefused ==
    HttpResponse(400, NoHeader,
                 Obj([Message |-> Str("Invoice not of valid status for modification")]))

\* whether the remote may accept (TRUE) or refuse (FALSE) the transition
RemoteDecisions(status) ==
    CASE status = "AUTHORISED" -> {TRUE}
      [] status = "VOIDED" -> {TRUE, FALSE}
      [] status = "PAID" -> {FALSE}

VoidInit ==
    /\ credentials \in Credentials
    /\ baseUrl = ClientBaseUrl(credentials)
    /\ pc = "idle"
    /\ call = NoCall
    /\ fetches = <<>>
    /\ response = NoResponse
    /\ reqOutcome = Pending
    /\ opOutcome = Pending
    /\ toolResult = Pending
    /\ entity = NoEntity
    /\ wire \in [status : InvoiceStatuses, was : {"none"}]

\* xero_void_invoice is called and calls voidInvoice
CallVoidInvoice(tool) ==
    /\ Tool(tool, NoArgs).operation = "voidInvoice"
    /\ Invoke(tool, "voidInvoice",
              [id |-> "id1", id2 |-> "", input |-> Undefined, params |-> Undefined], "json")

\* the remote decides, and voidInvoice interprets what request() settled with
RemoteAnswers(accepted) ==
    /\ pc = "awaiting"
    /\ accepted \in RemoteDecisions(wire.status)
    /\ LET resp == IF accepted
                   THEN HttpResponse(200, NoHeader,
                                     Obj([Invoices |-> Arr(<<RemoteInvoice("VOIDED")>>)]))
                   ELSE StatusRefused
       IN /\ response' = resp
          /\ reqOutcome' = request(resp)
          /\ opOutcome' = OperationResult(Operation(call.operation, call.args), request(resp))
    /\ wire' = [status |-> IF accepted THEN "VOIDED" ELSE wire.status, was |-> wire.status]
    /\ pc' = "settled"
    /\ UNCHANGED <<credentials, baseUrl, call, fetches, toolResult, entity>>

VoidNext ==
    \/ \E tool \in ToolNames : CallVoidInvoice(tool)
    \/ \E accepted \in BOOLEAN : RemoteAnswers(accepted)
    \/ FetchRejects
    \/ HandlerReturn
    \/ \E creds \in Credentials : NextCall(creds)

VoidSpec == VoidInit /\ [][VoidNext]_vars

\* the remote answered the request of voidInvoice that is settled
VoidAnswered ==
    /\ call.operation = "voidInvoice"
    /\ pc \in {"settled", "returned"}
    /\ response # NoResponse

\* C20: voidInvoice asks the remote for the transition to VOIDED and reports
\* the remote's answer: accepted for an AUTHORISED invoice, the entity returned
\* has status VOIDED; for an invoice VOIDED already the result is the entity of
\* the remote's success or the CrmApiError of its refusal; in every case the
\* status of the result is the Status of the record the remote sent
C20_VoidReportsRemoteAnswer ==
    VoidAnswered =>
        /\ Len(fetches) = 1
        /\ fetches[1].method = "POST"
        /\ fetches[1].path = "/Invoices/id1"
        /\ fetches[1].body = Obj([Invoices |->
                                    Arr(<<Obj([InvoiceID |-> Str("id1"), Status |-> Str("VOIDED")])>>)])
        /\ response.status = 200 =>
              /\ opOutcome.kind = "resolved"
              /\ Prop(opOutcome.value, "status")
                    = Prop(First(Prop(response.body, "Invoices")), "Status")
        /\ response.status = 400 =>
              opOutcome = Rejected(CrmApiError(Prop(response.body, "Message"), 400))
        /\ wire.was = "AUTHORISED" =>
              opOutcome.kind = "resolved" /\ Prop(opOutcome.value, "status") = Str("VOIDED")
        /\ wire.was = "VOIDED" =>
              \/ opOutcome.kind = "resolved" /\ Prop(opOutcome.value, "status") = Str("VOIDED")
              \/ opOutcome.kind = "rejected" /\ opOutcome.error.name = "CrmApiError"

\* voidInvoice was called for an invoice that was VOIDED already and the remote
\* refused: the caller got the remote's CrmApiError
C20_SecondVoidRefused ==
    /\ VoidAnswered
    /\ wire.was = "VOIDED"
    /\ wire.status = "VOIDED"
    /\ response = StatusRefused
    /\ opOutcome.kind = "rejected"
    /\ opOutcome.error.name = "CrmApiError"
    /\ opOutcome.error.statusCode = 400

\* the same invoice voided again with the remote answering idempotently
VoidedAgainAccepted ==
    /\ VoidAnswered
    /\ wire.was = "VOIDED"
    /\ response.status = 200
    /\ Prop(opOutcome.value, "status") = Str("VOIDED")

-----------------------------------------------------------------------------
(* Properties of the requests of single operations, checked under Spec.     *)

\* the operations that delete, void, archive or remove
RemovalOperations ==
    {operation \in OperationNames :
        \E prefix \in {"delete", "void", "archive", "remove"} :
            operation \in {prefix \o suffix : suffix \in
                {"Contact", "ContactGroup", "ContactsFromGroup", "Account", "Invoice",
                 "CreditNote", "Payment", "Item", "PurchaseOrder", "Quote", "BatchPayment",
                 "TrackingCategory", "TrackingOption", "RepeatingInvoice",
                 "LinkedTransaction"}}}

\* the keys that carry a status in an entity patch
StatusKeys == {"Status", "ContactStatus"}

\* the request in flight or answered is a POST whose entity sets a status
PostsStatus(f) ==
    /\ f.method = "POST"
    /\ TypeOf(f.body) = "object"
    /\ DOMAIN Val(BodyEntity(f.body)) \cap StatusKeys # {}

\* the operations the statement allows to issue DELETE
ClaimedHardDeletes ==
    {"deleteItem", "deleteTrackingCategory", "deleteTrackingOption",
     "deleteLinkedTransaction", "removeContactsFromGroup"}

HardDeletes == ClaimedHardDeletes \cup {"deleteAccount"}

\* DELETE comes from the operations in allowed only; every other removal
\* operation posts a status
RemovalDiscipline(allowed) ==
    \A i \in 1..Len(fetches) :
        /\ fetches[i].method = "DELETE" => call.operation \in allowed
        /\ call.operation \in RemovalOperations \ allowed => PostsStatus(fetches[i])

\* C21 as stated: an HTTP DELETE is issued only by the delete operations for
\* items, tracking categories, tracking options and linked transactions and by
\* the removal of a contact from a group; every other delete, void or archive
\* operation, accounts included, is a POST whose body sets a status field
C21_DeleteOnlyForListedKinds == RemovalDiscipline(ClaimedHardDeletes)

\* C21 amended: deleteAccount issues DELETE as well; archiveAccount and every
\* other removal operation is a POST whose body sets a status field
C21_DeleteAlsoForAccounts == RemovalDiscipline(HardDeletes)

\* deleteAccount sent its request: a DELETE without a body
C21_DeleteAccountIsHttpDelete ==
    /\ pc = "awaiting"
    /\ call.operation = "deleteAccount"
    /\ Len(fetches) = 1
    /\ fetches[1].method = "DELETE"
    /\ fetches[1].path = "/Accounts/id1"
    /\ fetches[1].body = Undefined

-----------------------------------------------------------------------------
(* xero_create_invoice from the arguments of the tool call: the schema of   *)
(* the tool accepts or refuses them, the handler reshapes the accepted      *)
(* arguments into a partial invoice and calls createInvoice.                *)

\* a line item as a caller writes it
ToolLine(n) ==
    Obj([description |-> Str("Widget" \o Nth[n]), quantity |-> Num(n), unitAmount |-> Num(50),
         accountCode |-> Str("200")])

\* the arguments tried: each member absent, well-formed or ill-formed
CreateInvoiceArguments ==
    {Obj([type |-> type, contactId |-> contactId, lineItems |-> lineItems,
          reference |-> reference]) :
       <<type, contactId, lineItems, reference>> \in
           {Undefined, Str("ACCREC"), Str("ACCPAY"), Str("OTHER")}
           \X {Undefined, Str("c1")}
           \X ({Undefined, Arr(<<Obj(Empty)>>)}
                 \cup {Arr([i \in 1..n |-> ToolLine(i)]) : n \in 0..MaxLines})
           \X {Undefined, Str("PO-7")}}

IsOptional(v, type) == v = Undefined \/ TypeOf(v) = type

\* lineItemSchema: z.object with four required and two optional members
lineItemSchema(li) ==
    /\ TypeOf(li) = "object"
    /\ TypeOf(Prop(li, "description")) = "string"
    /\ TypeOf(Prop(li, "quantity")) = "number"
    /\ TypeOf(Prop(li, "unitAmount")) = "number"
    /\ TypeOf(Prop(li, "accountCode")) = "string"
    /\ IsOptional(Prop(li, "itemCode"), "string")
    /\ IsOptional(Prop(li, "taxType"), "string")

\* the schema of xero_create_invoice: type, contactId and lineItems are
\* required; z.array(lineItemSchema) sets no minimum length
createInvoiceSchema(args) ==
    /\ Prop(args, "type") \in {Str("ACCREC"), Str("ACCPAY")}
    /\ TypeOf(Prop(args, "contactId")) = "string"
    /\ TypeOf(Prop(args, "lineItems")) = "array"
    /\ \A i \in 1..Len(Val(Prop(args, "lineItems"))) :
          lineItemSchema(Val(Prop(args, "lineItems"))[i])
    /\ IsOptional(Prop(args, "date"), "string")
    /\ IsOptional(Prop(args, "dueDate"), "string")
    /\ IsOptional(Prop(args, "reference"), "string")
    /\ Prop(args, "status") \in {Undefined, Str("DRAFT"), Str("SUBMITTED"), Str("AUTHORISED")}
    /\ Prop(args, "lineAmountTypes") \in {Undefined, Str("Exclusive"), Str("Inclusive"), Str("NoTax")}
    /\ IsOptional(Prop(args, "currencyCode"), "string")
    /\ IsOptional(Prop(args, "brandingThemeId"), "string")

\* the partial invoice the handler hands to client.createInvoice
createInvoiceInput(args) ==
    Obj([type |-> Prop(args, "type"),
         contact |-> Obj([contactId |-> Prop(args, "contactId")]),
         lineItems |-> Prop(args, "lineItems"),
         date |-> Prop(args, "date"),
         dueDate |-> Prop(args, "dueDate"),
         reference |-> Prop(args, "reference"),
         status |-> Prop(args, "status"),
         lineAmountTypes |-> Prop(args, "lineAmountTypes"),
         currencyCode |-> Prop(args, "currencyCode"),
         brandingThemeId |-> Prop(args, "brandingThemeId")])

CreateInvoiceInit ==
    /\ credentials \in Credentials
    /\ baseUrl = ClientBaseUrl(credentials)
    /\ pc = "idle"
    /\ call = NoCall
    /\ fetches = <<>>
    /\ response = NoResponse
    /\ reqOutcome = Pending
    /\ opOutcome = Pending
    /\ toolResult = Pending
    /\ entity \in {[kind |-> "arguments", input |-> args] : args \in CreateInvoiceArguments}
    /\ wire = Undefined

\* the arguments fail the schema: the handler does not run
RefuseArguments ==
    /\ pc = "idle"
    /\ ~createInvoiceSchema(entity.input)
    /\ pc' = "refused"
    /\ UNCHANGED <<credentials, baseUrl, call, fetches, response, reqOutcome, opOutcome,
                   toolResult, entity, wire>>

\* the arguments pass the schema: the handler calls createInvoice
CallCreateInvoice ==
    /\ createInvoiceSchema(entity.input)
    /\ Invoke("xero_create_invoice", "createInvoice",
              [id |-> "", id2 |-> "", input |-> createInvoiceInput(entity.input),
               params |-> Undefined], "json")

CreateInvoiceNext ==
    \/ RefuseArguments
    \/ CallCreateInvoice
    \/ \E resp \in PossibleResponses : Respond(resp)
    \/ FetchRejects
    \/ HandlerReturn

CreateInvoiceSpec == CreateInvoiceInit /\ [][CreateInvoiceNext]_vars

\* the call carries the empty line-item sequence
EmptyLineItems == Prop(entity.input, "lineItems") = Arr(<<>>)

\* C22: a xero_create_invoice call whose lineItems is the empty sequence is
\* rejected and never results in an outbound POST to /Invoices
C22_EmptyLineItemsRejected ==
    EmptyLineItems =>
        /\ \A i \in 1..Len(fetches) : ~(fetches[i].method = "POST" /\ fetches[i].path = "/Invoices")
        /\ pc \in {"idle", "refused"}

\* an invoice without line items went out: POST /Invoices with LineItems: []
C22_EmptyInvoicePosted ==
    /\ EmptyLineItems
    /\ pc = "awaiting"
    /\ Len(fetches) = 1
    /\ fetches[1].method = "POST"
    /\ fetches[1].path = "/Invoices"
    /\ Prop(First(Prop(fetches[1].body, "Invoices")), "LineItems") = Arr(<<>>)

\* the other requirements of the schema are enforced: no request goes out
\* without a type of ACCREC or ACCPAY and a contact id
RequiredArgumentsEnforced ==
    fetches # <<>> =>
        /\ Prop(entity.input, "type") \in {Str("ACCREC"), Str("ACCPAY")}
        /\ TypeOf(Prop(entity.input, "contactId")) = "string"

-----------------------------------------------------------------------------
(* The credential check of POST /mcp, over the inbound calls of TenantSpec. *)

\* a credential header is missing or empty
HeaderMissing(v) == v \in {Null, Str("")}

\* outbound requests caused by inbound call c
RequestsBy(c) == {i \in 1..Len(fetches) : fetches[i].by = c}

\* C23: a POST to /mcp whose X-Xero-Access-Token or X-Xero-Tenant-Id header
\* is missing or empty is answered with HTTP 401 and a body naming both
\* required headers, with no server or client constructed and no outbound
\* request; a POST with both headers present proceeds to the MCP handler
C23_MissingHeaderUnauthorized ==
    \A c \in InboundCalls :
        pc[c] # "none" =>
            LET h == call[c].headers
            IN IF HeaderMissing(h.token) \/ HeaderMissing(h.tenant)
               THEN /\ pc[c] = "unauthorized"
                    /\ toolResult[c].kind = "resolved"
                    /\ toolResult[c].value[1] = "http"
                    /\ toolResult[c].value[2].status = 401
                    /\ toolResult[c].value[2].body.required_headers
                          = <<"X-Xero-Access-Token", "X-Xero-Tenant-Id">>
                    /\ credentials[c] = NoCredentials
                    /\ RequestsBy(c) = {}
               ELSE /\ pc[c] \in {"ready", "awaiting", "done"}
                    /\ credentials[c] = parseTenantCredentials(h)

\* C23 happens: call 1 came with an empty tenant id and was answered 401
\* while call 2, with both headers, has its request in flight
C23_EmptyTenantRefused ==
    /\ call[1].headers.token = Str("token-a")
    /\ call[1].headers.tenant = Str("")
    /\ pc[1] = "unauthorized"
    /\ toolResult[1] = Unauthorized(parseTenantCredentials(call[1].headers))
    /\ toolResult[1].value[2].body.message
          = "Missing X-Xero-Tenant-Id header. Provide a valid Xero tenant ID."
    /\ pc[2] = "awaiting"
    /\ RequestsBy(2) # {}

-----------------------------------------------------------------------------
(* The conveniences that change a status and nothing else.                  *)

StatusConveniences ==
    {"archiveContact", "archiveAccount", "voidInvoice", "deleteInvoice", "voidCreditNote",
     "deletePayment", "deletePurchaseOrder", "deleteQuote", "deleteBatchPayment",
     "deleteRepeatingInvoice", "deleteContactGroup"}

\* the status each convenience asks for
TargetStatus(operation) ==
    CASE operation \in {"archiveContact", "archiveAccount"} -> Str("ARCHIVED")
      [] operation \in {"voidInvoice", "voidCreditNote"} -> Str("VOIDED")
      [] OTHER -> Str("DELETED")

\* the wire key of the status, and of the entity's own identifier
StatusKey(operation) == IF operation = "archiveContact" THEN "ContactStatus" ELSE "Status"

IdentifierKey(operation) ==
    CASE operation = "archiveContact" -> "ContactID"
      [] operation = "archiveAccount" -> "AccountID"
      [] operation \in {"voidInvoice", "deleteInvoice"} -> "InvoiceID"
      [] operation = "voidCreditNote" -> "CreditNoteID"
      [] operation = "deletePayment" -> "PaymentID"
      [] operation = "deletePurchaseOrder" -> "PurchaseOrderID"
      [] operation = "deleteQuote" -> "QuoteID"
      [] operation = "deleteBatchPayment" -> "BatchPaymentID"
      [] operation = "deleteRepeatingInvoice" -> "RepeatingInvoiceID"
      [] operation = "deleteContactGroup" -> "ContactGroupID"

\* the entity patch of a request is the status alone, or the status and
\* the identifier the operation was called with
StatusOnlyPatch(operation, id, f) ==
    /\ f.method = "POST"
    /\ TypeOf(f.body) = "object"
    /\ LET patch == Val(BodyEntity(f.body))
       IN /\ StatusKey(operation) \in DOMAIN patch
          /\ patch[StatusKey(operation)] = TargetStatus(operation)
          /\ DOMAIN patch \subseteq {StatusKey(operation), IdentifierKey(operation)}
          /\ IdentifierKey(operation) \in DOMAIN patch => patch[IdentifierKey(operation)] = Str(id)

\* C24: each status-mutating convenience sends a partial update whose entity
\* patch sets exactly one status field to the target status and carries no
\* other field, except at most the entity's own identifier
C24_StatusConveniencesPatchStatusOnly ==
    call.operation \in StatusConveniences =>
        \A i \in 1..Len(fetches) : StatusOnlyPatch(call.operation, call.args.id, fetches[i])

\* C24 happens: archiveContact went out as a patch of ContactStatus alone
C24_ArchiveContactSent ==
    /\ pc = "awaiting"
    /\ call.operation = "archiveContact"
    /\ Len(fetches) = 1
    /\ fetches[1].path = "/Contacts/id1"
    /\ BodyEntity(fetches[1].body) = Obj([ContactStatus |-> Str("ARCHIVED")])

\* deleteInvoice repeats the identifier of the invoice inside the patch
C24_IdentifierInsidePatch ==
    /\ pc = "awaiting"
    /\ call.operation = "deleteInvoice"
    /\ Len(fetches) = 1
    /\ BodyEntity(fetches[1].body) = Obj([InvoiceID |-> Str("id1"), Status |-> Str("DELETED")])

-----------------------------------------------------------------------------
(* Several operations, one after the other, on one client.  entity keeps    *)
(* the credentials the client was created with and the calls that have      *)
(* settled, each with how it settled; fetches collects the requests of all  *)
(* of them.                                                                 *)

MaxOperations == 2

SessionOperations == {"listInvoices", "getInvoice", "createContact", "deleteItem"}

SessionInit ==
    /\ credentials \in Credentials
    /\ baseUrl = ClientBaseUrl(credentials)
    /\ pc = "idle"
    /\ call = NoCall
    /\ fetches = <<>>
    /\ response = NoResponse
    /\ reqOutcome = Pending
    /\ opOutcome = Pending
    /\ toolResult = Pending
    /\ entity = [kind |-> "session", created |-> credentials, calls |-> <<>>, settled |-> <<>>]
    /\ wire = Undefined

\* an operation of the client is called
SessionCall(operation, a) ==
    /\ Len(entity.calls) < MaxOperations
    /\ Invoke("none", operation, a, "json")

\* the operation has settled; the caller goes on with the same client
SessionContinue ==
    /\ pc = "settled"
    /\ entity' = [entity EXCEPT !.calls = Append(@, call), !.settled = Append(@, opOutcome.kind)]
    /\ pc' = "idle"
    /\ call' = NoCall
    /\ response' = NoResponse
    /\ reqOutcome' = Pending
    /\ opOutcome' = Pending
    /\ UNCHANGED <<credentials, baseUrl, fetches, toolResult, wire>>

SessionNext ==
    \/ \E operation \in SessionOperations : \E a \in ArgsOf(operation) : SessionCall(operation, a)
    \/ \E resp \in PossibleResponses : Respond(resp)
    \/ FetchRejects
    \/ SessionContinue

SessionSpec == SessionInit /\ [][SessionNext]_vars

\* the calls made so far on the client, the one in progress included
CallsMade == entity.calls \o (IF pc = "idle" THEN <<>> ELSE <<call>>)

\* the request a client just created with creds sends for call c
FreshRequest(creds, c) ==
    LET d == Operation(c.operation, c.args)
    IN [base |-> IF Truthy(creds.baseUrl) THEN Val(creds.baseUrl)
                 ELSE "https://api.xero.com/api.xro/2.0",
        path |-> d.path, query |-> d.query, method |-> d.method,
        headers |-> [Authorization |-> "Bearer " \o Val(creds.accessToken),
                     XeroTenantId |-> Val(creds.tenantId),
                     ContentType |-> "application/json",
                     Accept |-> "application/json"],
        body |-> d.body]

\* C25: after any sequence of operations on one client, successful or
\* failed, its access token, tenant id and base URL are what it was
\* created with, and each request sent is the one a fresh client with
\* those credentials sends for that call's arguments
C25_ClientKeepsNoState ==
    /\ credentials = entity.created
    /\ baseUrl = ClientBaseUrl(entity.created)
    /\ IF Truthy(entity.created.accessToken) /\ Truthy(entity.created.tenantId)
       THEN /\ Len(fetches) = Len(CallsMade)
            /\ \A i \in 1..Len(fetches) : fetches[i] = FreshRequest(entity.created, CallsMade[i])
       ELSE fetches = <<>>

\* C25 happens: after a getInvoice settled, rejected, a createContact on the
\* same client went out with the same bearer token
C25_SecondCallAfterFailure ==
    /\ Len(entity.calls) = 1
    /\ entity.calls[1].operation = "getInvoice"
    /\ entity.settled[1] = "rejected"
    /\ pc = "awaiting"
    /\ call.operation = "createContact"
    /\ Len(fetches) = 2
    /\ fetches[2].method = "POST"
    /\ fetches[2].headers.Authorization = fetches[1].headers.Authorization

-----------------------------------------------------------------------------
(* The server built for a /mcp request: createStatelessServer runs the      *)
(* registration functions in order, and a caller then asks for a tool by    *)
(* the name the README gives it.  entity holds the names registered so far. *)

\* the registration functions in the order createStatelessServer calls them
RegistrationOrder ==
    <<"registerOrganisationTools", "registerContactTools", "registerAccountTools",
      "registerInvoiceTools", "registerPaymentTools", "registerBankingTools",
      "registerItemTools", "registerPurchaseOrderTools", "registerQuoteTools",
      "registerJournalTools", "registerReportTools", "registerSettingsTools",
      "registerRepeatingInvoiceTools", "registerLinkedTransactionTools">>

\* the tool names each registration function passes to server.tool
ToolsRegisteredBy(register) ==
    CASE register = "registerOrganisationTools" ->
           {"xero_test_connection", "xero_get_organisation"}
      [] register = "registerContactTools" ->
           {"xero_list_contacts", "xero_get_contact", "xero_create_contact",
            "xero_update_contact", "xero_archive_contact",
            "xero_list_contact_groups", "xero_create_contact_group",
            "xero_add_contacts_to_group"}
      [] register = "registerAccountTools" ->
           {"xero_list_accounts", "xero_get_account", "xero_create_account",
            "xero_update_account", "xero_delete_account"}
      [] register = "registerInvoiceTools" ->
           {"xero_list_invoices", "xero_get_invoice", "xero_create_invoice",
            "xero_update_invoice", "xero_void_invoice", "xero_delete_invoice"}
      [] register = "registerPaymentTools" ->
           {"xero_list_payments", "xero_get_payment", "xero_create_payment",
            "xero_delete_payment", "xero_list_credit_notes",
            "xero_get_credit_note", "xero_create_credit_note",
            "xero_allocate_credit_note", "xero_list_prepayments",
            "xero_allocate_prepayment", "xero_list_overpayments",
            "xero_allocate_overpayment", "xero_list_batch_payments"}
      [] register = "registerBankingTools" ->
           {"xero_list_bank_transactions", "xero_get_bank_transaction",
            "xero_create_bank_transaction", "xero_update_bank_transaction",
            "xero_list_bank_transfers", "xero_get_bank_transfer",
            "xero_create_bank_transfer"}
      [] register = "registerItemTools" ->
           {"xero_list_items", "xero_get_item", "xero_create_item",
            "xero_update_item", "xero_delete_item"}
      [] register = "registerPurchaseOrderTools" ->
           {"xero_list_purchase_orders", "xero_get_purchase_order",
            "xero_create_purchase_order", "xero_update_purchase_order",
            "xero_delete_purchase_order"}
      [] register = "registerQuoteTools" ->
           {"xero_list_quotes", "xero_get_quote", "xero_create_quote",
            "xero_update_quote", "xero_delete_quote"}
      [] register = "registerJournalTools" ->
           {"xero_list_journals", "xero_get_journal",
            "xero_list_manual_journals", "xero_get_manual_journal",
            "xero_create_manual_journal", "xero_update_manual_journal"}
      [] register = "registerReportTools" ->
           {"xero_get_balance_sheet", "xero_get_profit_and_loss",
            "xero_get_trial_balance", "xero_get_bank_summary",
            "xero_get_aged_receivables_by_contact",
            "xero_get_aged_payables_by_contact", "xero_get_budget_summary",
            "xero_get_executive_summary", "xero_get_report"}
      [] register = "registerSettingsTools" ->
           {"xero_list_tracking_categories", "xero_get_tracking_category",
            "xero_create_tracking_category", "xero_update_tracking_category",
            "xero_delete_tracking_category", "xero_create_tracking_option",
            "xero_update_tracking_option", "xero_delete_tracking_option",
            "xero_list_tax_rates", "xero_get_tax_rate", "xero_create_tax_rate",
            "xero_update_tax_rate", "xero_list_currencies",
            "xero_create_currency", "xero_list_branding_themes",
            "xero_get_branding_theme", "xero_list_users", "xero_get_user"}
      [] register = "registerRepeatingInvoiceTools" ->
           {"xero_list_repeating_invoices", "xero_get_repeating_invoice",
            "xero_create_repeating_invoice", "xero_update_repeating_invoice",
            "xero_delete_repeating_invoice"}
      [] register = "registerLinkedTransactionTools" ->
           {"xero_list_linked_transactions", "xero_get_linked_transaction",
            "xero_create_linked_transaction", "xero_update_linked_transaction",
            "xero_delete_linked_transaction"}

\* the tool names under "Available Tools" in the README
ReadmeTools ==
    {"xero_get_organisation", "xero_get_connections", "xero_list_contacts",
     "xero_get_contact", "xero_create_contact", "xero_update_contact",
     "xero_archive_contact", "xero_list_accounts", "xero_get_account",
     "xero_create_account", "xero_update_account", "xero_archive_account",
     "xero_list_invoices", "xero_get_invoice", "xero_create_invoice",
     "xero_update_invoice", "xero_void_invoice", "xero_email_invoice",
     "xero_list_payments", "xero_get_payment", "xero_create_payment",
     "xero_delete_payment", "xero_list_bank_transactions",
     "xero_get_bank_transaction", "xero_create_bank_transaction",
     "xero_list_bank_transfers", "xero_create_bank_transfer",
     "xero_list_items", "xero_get_item", "xero_create_item",
     "xero_update_item", "xero_delete_item", "xero_list_purchase_orders",
     "xero_get_purchase_order", "xero_create_purchase_order",
     "xero_update_purchase_order", "xero_list_quotes", "xero_get_quote",
     "xero_create_quote", "xero_update_quote", "xero_list_journals",
     "xero_get_journal", "xero_create_manual_journal", "xero_get_profit_loss",
     "xero_get_balance_sheet", "xero_get_trial_balance",
     "xero_get_aged_receivables", "xero_get_aged_payables",
     "xero_list_tax_rates", "xero_list_currencies",
     "xero_list_tracking_categories", "xero_list_repeating_invoices",
     "xero_get_repeating_invoice", "xero_list_linked_transactions",
     "xero_create_linked_transaction"}

ServerCredentials == {creds \in Credentials : creds.baseUrl = Undefined}

ServerInit ==
    /\ credentials \in ServerCredentials
    /\ baseUrl = ClientBaseUrl(credentials)
    /\ pc = "building"
    /\ call = NoCall
    /\ fetches = <<>>
    /\ response = NoResponse
    /\ reqOutcome = Pending
    /\ opOutcome = Pending
    /\ toolResult = Pending
    /\ entity = [kind |-> "server", tools |-> {}, registered |-> 0]
    /\ wire = Undefined

\* the next registration function runs; after the last one the server is returned
RegisterTools ==
    /\ pc = "building"
    /\ entity' = [entity EXCEPT
                     !.tools = @ \cup ToolsRegisteredBy(RegistrationOrder[entity.registered + 1]),
                     !.registered = @ + 1]
    /\ pc' = IF entity.registered + 1 = Len(RegistrationOrder) THEN "idle" ELSE "building"
    /\ UNCHANGED <<credentials, baseUrl, call, fetches, response, reqOutcome, opOutcome,
                   toolResult, wire>>

\* a tool is asked for by a name the server has registered: its handler runs
CallRegisteredTool(tool, a) ==
    /\ tool \in entity.tools
    /\ Invoke(tool, Tool(tool, a).operation, a, "json")

\* a tool is asked for by a name the server has not registered: no handler runs
CallUnknownTool(tool) ==
    /\ pc = "idle"
    /\ tool \notin entity.tools
    /\ call' = [NoCall EXCEPT !.tool = tool]
    /\ pc' = "unknown"
    /\ UNCHANGED <<credentials, baseUrl, fetches, response, reqOutcome, opOutcome,
                   toolResult, entity, wire>>

ServerNext ==
    \/ RegisterTools
    \/ \E tool \in ReadmeTools \cap ToolNames :
          \E a \in ArgsOf(Tool(tool, NoArgs).operation) : CallRegisteredTool(tool, a)
    \/ \E tool \in ReadmeTools : CallUnknownTool(tool)
    \/ \E resp \in PossibleResponses : Respond(resp)
    \/ FetchRejects
    \/ HandlerReturn

ServerSpec == ServerInit /\ [][ServerNext]_vars

\* C26: every tool name listed under "Available Tools" in the README is
\* registered by the server built for a /mcp request
C26_ReadmeToolsRegistered ==
    pc # "building" => ReadmeTools \subseteq entity.tools

\* a tool of the README was asked for and the server has no such tool
C26_EmailInvoiceUnknown ==
    /\ pc = "unknown"
    /\ entity.registered = 14
    /\ call.tool = "xero_email_invoice"
    /\ entity.tools = ToolNames
    /\ ReadmeTools \ entity.tools =
          {"xero_get_connections", "xero_archive_account", "xero_email_invoice",
           "xero_get_profit_loss", "xero_get_aged_receivables", "xero_get_aged_payables"}

\* the other names of the README are registered once the server is built
ReadmeToolsButSixRegistered ==
    pc # "building" =>
        ReadmeTools \ {"xero_get_connections", "xero_archive_account", "xero_email_invoice",
                       "xero_get_profit_loss", "xero_get_aged_receivables",
                       "xero_get_aged_payables"} \subseteq entity.tools

-----------------------------------------------------------------------------
(* One wire record returned both by the list and by the get operation of    *)
(* its entity kind.  entity holds how each of the two operations settled.   *)

\* the list and get operation of each entity kind: two GETs of one
\* collection key that use one mapper
ListGetPairs ==
    {<<"listContacts", "getContact">>, <<"listContactGroups", "getContactGroup">>,
     <<"listAccounts", "getAccount">>, <<"listInvoices", "getInvoice">>,
     <<"listCreditNotes", "getCreditNote">>, <<"listPayments", "getPayment">>,
     <<"listBankTransactions", "getBankTransaction">>,
     <<"listBankTransfers", "getBankTransfer">>, <<"listItems", "getItem">>,
     <<"listPurchaseOrders", "getPurchaseOrder">>, <<"listQuotes", "getQuote">>,
     <<"listPrepayments", "getPrepayment">>, <<"listOverpayments", "getOverpayment">>,
     <<"listJournals", "getJournal">>, <<"listManualJournals", "getManualJournal">>,
     <<"listBatchPayments", "getBatchPayment">>, <<"listTaxRates", "getTaxRate">>,
     <<"listTrackingCategories", "getTrackingCategory">>,
     <<"listBrandingThemes", "getBrandingTheme">>,
     <<"listRepeatingInvoices", "getRepeatingInvoice">>, <<"listUsers", "getUser">>,
     <<"listLinkedTransactions", "getLinkedTransaction">>}

\* the pairs are the operations that read one collection with one mapper
ListGetPairsAgree ==
    \A p \in ListGetPairs :
        LET l == Operation(p[1], NoArgs)
            g == Operation(p[2], NoArgs)
        IN /\ l.method = "GET" /\ l.ret \in {"list", "paged"}
           /\ g.method = "GET" /\ g.ret = "first"
           /\ l.key = g.key /\ l.mapper = g.mapper /\ l.mapper # ""

ListGetMappers ==
    {"mapContact", "mapContactGroup", "mapAccount", "mapInvoice", "mapCreditNote",
     "mapPayment", "mapBankTransaction", "mapBankTransfer", "mapItem", "mapPurchaseOrder",
     "mapQuote", "mapPrepayment", "mapOverpayment", "mapJournal", "mapManualJournal",
     "mapBatchPayment", "mapTaxRate", "mapTrackingCategory", "mapBrandingTheme",
     "mapRepeatingInvoice", "mapUser", "mapLinkedTransaction"}

ListGetInit ==
    /\ wire \in UNION {{[mapper |-> mapper, record |-> w] : w \in WireRecords(mapper)} :
                        mapper \in ListGetMappers}
    /\ entity = [kind |-> "answers", listed |-> Pending, got |-> Pending]
    /\ pc = "idle"
    /\ credentials = [accessToken |-> Str("tok"), tenantId |-> Str("tenant-1"),
                      baseUrl |-> Undefined]
    /\ baseUrl = ClientBaseUrl(credentials)
    /\ call = NoCall
    /\ fetches = <<>>
    /\ response = NoResponse
    /\ reqOutcome = Pending
    /\ opOutcome = Pending
    /\ toolResult = Pending

\* the list or the get operation of the record's kind is called
CallListOrGet(list, get) ==
    /\ pc = "idle"
    /\ Operation(list, NoArgs).mapper = wire.mapper
    /\ \/ /\ entity.listed = Pending
          /\ Invoke("none", list, [NoArgs EXCEPT !.id = "id1"], "json")
       \/ /\ entity.got = Pending
          /\ Invoke("none", get, [NoArgs EXCEPT !.id = "id1"], "json")

\* the remote answers 200 with the record as the one element of the
\* collection, and the operation maps it
RecordReturned ==
    /\ pc = "awaiting"
    /\ LET d == Operation(call.operation, call.args)
           resp == HttpResponse(200, NoHeader, Obj(d.key :> Arr(<<wire.record>>)))
           settled == OperationResult(d, request(resp))
       IN /\ response' = resp
          /\ reqOutcome' = request(resp)
          /\ opOutcome' = settled
          /\ entity' = IF d.ret = "first" THEN [entity EXCEPT !.got = settled]
                       ELSE [entity EXCEPT !.listed = settled]
    /\ pc' = "idle"
    /\ UNCHANGED <<credentials, baseUrl, call, fetches, toolResult, wire>>

ListGetNext ==
    \/ \E p \in ListGetPairs : CallListOrGet(p[1], p[2])
    \/ RecordReturned

ListGetSpec == ListGetInit /\ [][ListGetNext]_vars

\* the items of a list result: the array itself, or the items of a page
ListedItems(v) == IF TypeOf(v) = "array" THEN v ELSE Prop(v, "items")

\* the list operation settled as the get operation did: with the one item
\* get returned
ListedAsGot ==
    /\ entity.listed.kind = "resolved"
    /\ ListedItems(entity.listed.value) = Arr(<<entity.got.value>>)

\* C27: for every entity kind and wire record r, a list response containing
\* r yields an item equal to what get returns for r, and list does not fail
\* where get succeeds
C27_ListMapsAsGet ==
    (entity.listed # Pending /\ entity.got.kind = "resolved") => ListedAsGot

\* listContactGroups failed with a TypeError on a group that carries
\* Contacts, and getContactGroup returned the group for the same record
C27_ListedGroupFailsGotGroupReturned ==
    /\ wire.mapper = "mapContactGroup"
    /\ TypeOf(Prop(wire.record, "Contacts")) = "array"
    /\ call.operation = "listContactGroups"
    /\ pc = "idle"
    /\ Len(fetches) = 2
    /\ entity.got.kind = "resolved"
    /\ TypeOf(Prop(entity.got.value, "contacts")) = "array"
    /\ entity.listed.kind = "rejected"
    /\ entity.listed.error.name = "TypeError"

\* list and get differ on no other record: the record is an invoice with
\* LineItems or a contact group with Contacts
ListDiffersOnlyUnbound ==
    (entity.listed # Pending /\ entity.got.kind = "resolved" /\ ~ListedAsGot) =>
        \/ wire.mapper = "mapInvoice" /\ TypeOf(Prop(wire.record, "LineItems")) = "array"
        \/ wire.mapper = "mapContactGroup" /\ TypeOf(Prop(wire.record, "Contacts")) = "array"

-----------------------------------------------------------------------------
(* xero_create_linked_transaction from the arguments of the tool call.      *)

LinkArguments ==
    {Obj([sourceTransactionId |-> source, sourceLineItemId |-> Str("sl1"),
          contactId |-> contact, targetTransactionId |-> target,
          targetLineItemId |-> targetLine]) :
       <<source, contact, target, targetLine>> \in
           {Undefined, Str("s1")} \X {Undefined, Str("c1")}
           \X {Undefined, Str("t1")} \X {Undefined, Str("tl1")}}

\* the schema of xero_create_linked_transaction: three required strings and
\* two optional ones
createLinkedTransactionSchema(args) ==
    /\ TypeOf(Prop(args, "sourceTransactionId")) = "string"
    /\ TypeOf(Prop(args, "sourceLineItemId")) = "string"
    /\ TypeOf(Prop(args, "contactId")) = "string"
    /\ IsOptional(Prop(args, "targetTransactionId"), "string")
    /\ IsOptional(Prop(args, "targetLineItemId"), "string")

\* the partial linked transaction the handler hands to createLinkedTransaction
createLinkedTransactionInput(args) ==
    Obj([sourceTransactionId |-> Prop(args, "sourceTransactionId"),
         sourceLineItemId |-> Prop(args, "sourceLineItemId"),
         contactId |-> Prop(args, "contactId"),
         targetTransactionId |-> Prop(args, "targetTransactionId"),
         targetLineItemId |-> Prop(args, "targetLineItemId")])

LinkInit ==
    /\ credentials \in Credentials
    /\ baseUrl = ClientBaseUrl(credentials)
    /\ pc = "idle"
    /\ call = NoCall
    /\ fetches = <<>>
    /\ response = NoResponse
    /\ reqOutcome = Pending
    /\ opOutcome = Pending
    /\ toolResult = Pending
    /\ entity \in {[kind |-> "arguments", input |-> args] : args \in LinkArguments}
    /\ wire = Undefined

\* the arguments fail the schema: the handler does not run
RefuseLinkArguments ==
    /\ pc = "idle"
    /\ ~createLinkedTransactionSchema(entity.input)
    /\ pc' = "refused"
    /\ UNCHANGED <<credentials, baseUrl, call, fetches, response, reqOutcome, opOutcome,
                   toolResult, entity, wire>>

\* the arguments pass the schema: the handler calls createLinkedTransaction
CallCreateLinkedTransaction ==
    /\ createLinkedTransactionSchema(entity.input)
    /\ Invoke("xero_create_linked_transaction", "createLinkedTransaction",
              [id |-> "", id2 |-> "", input |-> createLinkedTransactionInput(entity.input),
               params |-> Undefined], "json")

LinkNext ==
    \/ RefuseLinkArguments
    \/ CallCreateLinkedTransaction
    \/ \E resp \in PossibleResponses : Respond(resp)
    \/ FetchRejects
    \/ HandlerReturn

LinkSpec == LinkInit /\ [][LinkNext]_vars

\* the body has the argument under the wire key, or neither has a value
Transmitted(f, key, argument) ==
    Prop(f.body, key) = Prop(entity.input, argument)

\* C28: xero_create_linked_transaction transmits every argument it accepts:
\* the body of the outbound POST /LinkedTransactions has TargetTransactionID
\* and TargetLineItemID with the values supplied, alongside the source
\* transaction, source line item and contact identifiers
C28_TargetsTransmitted ==
    \A i \in 1..Len(fetches) :
        /\ fetches[i].method = "POST"
        /\ fetches[i].path = "/LinkedTransactions"
        /\ Transmitted(fetches[i], "SourceTransactionID", "sourceTransactionId")
        /\ Transmitted(fetches[i], "SourceLineItemID", "sourceLineItemId")
        /\ Transmitted(fetches[i], "ContactID", "contactId")
        /\ Transmitted(fetches[i], "TargetTransactionID", "targetTransactionId")
        /\ Transmitted(fetches[i], "TargetLineItemID", "targetLineItemId")

\* a call that names the target invoice and line went out without them
C28_TargetsDropped ==
    /\ Prop(entity.input, "targetTransactionId") = Str("t1")
    /\ Prop(entity.input, "targetLineItemId") = Str("tl1")
    /\ pc = "awaiting"
    /\ Len(fetches) = 1
    /\ fetches[1].method = "POST"
    /\ fetches[1].path = "/LinkedTransactions"
    /\ fetches[1].body = Obj([SourceTransactionID |-> Str("s1"),
                              SourceLineItemID |-> Str("sl1"),
                              ContactID |-> Str("c1")])

\* the source transaction, source line item and contact are transmitted
SourceIdentifiersTransmitted ==
    \A i \in 1..Len(fetches) :
        /\ fetches[i].method = "POST"
        /\ fetches[i].path = "/LinkedTransactions"
        /\ Transmitted(fetches[i], "SourceTransactionID", "sourceTransactionId")
        /\ Transmitted(fetches[i], "SourceLineItemID", "sourceLineItemId")
        /\ Transmitted(fetches[i], "ContactID", "contactId")

-----------------------------------------------------------------------------
(* xero_list_accounts from the arguments of the tool call.                  *)

AccountClasses == {Str("ASSET"), Str("EQUITY"), Str("EXPENSE"), Str("LIABILITY"), Str("REVENUE")}

ListAccountsArguments ==
    {Obj([where |-> where, classType |-> classType]) :
       <<where, classType>> \in
           {Undefined, Str(""), Str("Type==\"BANK\""), Str("Status==\"ACTIVE\"")}
           \X {Undefined, Str("ASSET"), Str("REVENUE"), Str("OTHER")}}

\* the schema of xero_list_accounts: an optional string and an optional class
listAccountsSchema(args) ==
    /\ IsOptional(Prop(args, "where"), "string")
    /\ Prop(args, "classType") \in {Undefined} \cup AccountClasses

ListAccountsInit ==
    /\ credentials \in Credentials
    /\ baseUrl = ClientBaseUrl(credentials)
    /\ pc = "idle"
    /\ call = NoCall
    /\ fetches = <<>>
    /\ response = NoResponse
    /\ reqOutcome = Pending
    /\ opOutcome = Pending
    /\ toolResult = Pending
    /\ entity \in {[kind |-> "arguments", input |-> args] : args \in ListAccountsArguments}
    /\ wire = Undefined

\* the arguments fail the schema: the handler does not run
RefuseListAccountsArguments ==
    /\ pc = "idle"
    /\ ~listAccountsSchema(entity.input)
    /\ pc' = "refused"
    /\ UNCHANGED <<credentials, baseUrl, call, fetches, response, reqOutcome, opOutcome,
                   toolResult, entity, wire>>

\* the arguments pass the schema: the handler calls listAccounts({ where, classType })
CallListAccounts(format) ==
    /\ listAccountsSchema(entity.input)
    /\ Invoke("xero_list_accounts", "listAccounts",
              [id |-> "", id2 |-> "",
               input |-> Undefined,
               params |-> Obj([where |-> Prop(entity.input, "where"),
                               classType |-> Prop(entity.input, "classType")])],
              format)

ListAccountsNext ==
    \/ RefuseListAccountsArguments
    \/ \E format \in Formats : CallListAccounts(format)
    \/ \E resp \in PossibleResponses : Respond(resp)
    \/ FetchRejects
    \/ HandlerReturn

ListAccountsSpec == ListAccountsInit /\ [][ListAccountsNext]_vars

\* the call supplies a where expression and a class
BothFilters == Truthy(Prop(entity.input, "where")) /\ Truthy(Prop(entity.input, "classType"))

\* the query listAccounts sends for a class with no where expression
ClassOnlyQuery(classType) ==
    Operation("listAccounts",
              [NoArgs EXCEPT !.params = Obj([where |-> Undefined, classType |-> classType])]).query

\* C29: listAccounts applies every filter it is given: with a where
\* expression and a classType the outbound query still constrains by the
\* where expression as well as by the class, so it is not the query of the
\* class alone
C29_WhereNotDiscarded ==
    BothFilters =>
        \A i \in 1..Len(fetches) :
            fetches[i].query # ClassOnlyQuery(Prop(entity.input, "classType"))

\* a call with where Type=="BANK" and class ASSET went out with the class as
\* its only constraint
C29_WhereOverwritten ==
    /\ Prop(entity.input, "where") = Str("Type==\"BANK\"")
    /\ Prop(entity.input, "classType") = Str("ASSET")
    /\ pc = "awaiting"
    /\ Len(fetches) = 1
    /\ fetches[1].path = "/Accounts"
    /\ fetches[1].query = <<<<"where", "Class==\"ASSET\"">>>>

\* a single filter is applied as given
SingleFilterApplied ==
    \A i \in 1..Len(fetches) :
        LET where == Prop(entity.input, "where")
            classType == Prop(entity.input, "classType")
        IN /\ (Truthy(where) /\ ~Truthy(classType))
                  => fetches[i].query = <<<<"where", Val(where)>>>>
           /\ (~Truthy(where) /\ Truthy(classType))
                  => fetches[i].query = <<<<"where", "Class==\"" \o Val(classType) \o "\"">>>>
           /\ (~Truthy(where) /\ ~Truthy(classType)) => fetches[i].query = <<>>

-----------------------------------------------------------------------------
(* The paged results of the list operations, checked under PagingSpec.      *)

\* the values of the page parameter in the request of the call
PageSent == {fetches[1].query[i][2] : i \in {j \in 1..Len(fetches[1].query) :
                                                fetches[1].query[j][1] = "page"}}

\* a paged list operation has returned a result
PagedResultReturned ==
    /\ pc \in {"settled", "returned"}
    /\ opOutcome.kind = "resolved"
    /\ Operation(call.operation, call.args).ret = "paged"

\* C30: every paginated result of a paged list operation has count equal to
\* the length of items, and its page is the page requested and sent as the
\* page query parameter, or 1 when no page was supplied, in which case no
\* page parameter is sent
C30_PagedResultConsistent ==
    PagedResultReturned =>
        LET result == opOutcome.value
            requested == Prop(call.args.params, "page")
        IN /\ Prop(result, "count") = Num(Len(Val(Prop(result, "items"))))
           /\ IF requested = Undefined
              THEN Prop(result, "page") = Num(1) /\ PageSent = {}
              ELSE Prop(result, "page") = requested /\ PageSent = {String(requested)}

\* C30 happens: page 3 of the payments was asked for and came back full
C30_ThirdPageReturned ==
    /\ PagedResultReturned
    /\ call.operation = "listPayments"
    /\ Prop(call.args.params, "page") = Num(3)
    /\ PageSent = {"3"}
    /\ Prop(opOutcome.value, "page") = Num(3)
    /\ Prop(opOutcome.value, "count") = Num(100)

\* and without a page: no page parameter went out and the result is page 1
C30_NoPageIsFirstPage ==
    /\ PagedResultReturned
    /\ call.args.params = Undefined
    /\ PageSent = {}
    /\ Prop(opOutcome.value, "page") = Num(1)
    /\ Prop(opOutcome.value, "count") = Num(1)

====
